---- MODULE Spec2Model ----
(***************************************************************************)
(* Generation-to-merge pipeline of gcode: the diff engine (unifiedDiff,    *)
(* applyUnifiedDiff), the routing policy (decideRoute), the output codec   *)
(* (parseOutputToJson, parseOutput), the chained orchestrators and the     *)
(* staged-change store with the editor's test gate.                        *)
(*                                                                         *)
(* A text is a sequence of one-character strings; "\n" is the line break.  *)
(***************************************************************************)
EXTENDS Integers, Sequences, FiniteSets, TLC

VARIABLES
    \* ---- diff engine (one computation: before, diff text, result)
    dBefore,        \* base text handed to the diff engine
    dAfter,         \* candidate text the diff was computed from, or NoText
    dDiff,          \* the diff text being applied
    dOut,           \* text returned by the applier
    dPc,            \* "start" | "diffed" | "applied" | "appliedClient" | "hardened"
    \* ---- files store (zustand useFilesStore)
    files,          \* path -> content, a function on the paths that exist
    userEdits,      \* set of paths edited locally
    activePath,     \* path shown in the editor, or NoPath
    stagedChanges,  \* sequence of [path, before, after, modelUsed]
    ret,            \* {applied, skipped} returned by applyStagedChanges in the
                    \* last step, NoReturn after any other step
    discarded,      \* history: number of staged changes dropped when the last
                    \* step was a call of clearStagedChanges alone, else -1
    \* ---- one request to the gen route (src/app/api/gen/route.ts POST)
    gReq,           \* request body [prompt, vibe, mode, baseFiles], or NoRequest
    gRoute,         \* result of decideRoute, or "none"
    gGrokText,      \* text collected from the fast model
    gFinalText,     \* text returned by the refine model
    gResp,          \* response sent, or NoResponse
    gPc,            \* "idle" | "received" | "awaitGrok" | "awaitClaude" | "done"
    \* ---- one request to the integrate route (src/unnamed/part_000 POST)
    apiCalls,       \* costMonitor.apiCalls (process-wide)
    iService,       \* TRUE when parseIntegrationIntent found a service
    iGrokText,      \* text collected from the fast model
    iFinalText,     \* text returned by the refine model
    iResult,        \* value returned by dualRouterGenerate, or NoResult
    iResp,          \* response sent, or NoResponse
    iPc,            \* "idle" | "received" | "awaitGrok" | "awaitClaude" | "done"
    \* ---- one run of a codec on a raw text
    cRaw,           \* raw model text
    cParsed,        \* parse result, or NoResult
    cPc,            \* "idle" | "start" | "parsedGen" | "parsedIntegrate"
    \* ---- editor and gen page (React state, closures of handlers in flight)
    testResult,     \* pass rate in percent of the last test run, or NoTestResult
    isTesting,      \* a /api/run-tests request is in flight
    testFresh,      \* history: no setStagedChanges call since the last run started
    loading,        \* GenPage.onSubmit is in flight
    genFiles,       \* currentFiles in the closure of that onSubmit
    hardening,      \* the harden handler is in flight
    hardenFiles,    \* files in the closure of that handler
    integrating,    \* handleIntegrate is in flight
    integrateFiles, \* files in the closure of that handler
    debugModal,     \* [open, diffs]: the debug modal and the diffs of its fix
    lastStaged,     \* history: argument of the last setStagedChanges call since
                    \* the pending set was last emptied, or <<>>
    lastBy,         \* history: handler that made that call, or "none"
    prevBy,         \* history: handler that made the call before it, or "none"
    raced,          \* history: the last caller was in flight during the call before
    racers,          \* history: requests in flight since the last call
    \* ---- one request to the similarity route (src/unnamed/part_002 GET)
    sEmb,           \* embedding of the query text
    sRows,          \* rows of the fetched window, [id, embedding]
    sMin,           \* minSim, in percent
    sLimit,         \* limit
    sResp,          \* response sent, or NoResponse
    sPc,             \* "idle" | "fetching" | "done"
    \* ---- one call of callGrokCollect of the debug route (src/app/api/debug/route.ts)
    rText,          \* text collected by the current attempt
    retryCount,     \* retryCount
    rWaitMs,        \* backoff being waited for, 0 when none
    rResult,        \* text returned, or NoText
    rError,         \* error thrown to the caller: "none" | "rateLimit" | "other"
    rFailures,      \* history: failure of each attempt so far
    rPc,             \* "idle" | "streaming" | "waiting" | "returned" | "threw"
    \* ---- one stream of the fast model read by the gen route (src/lib/clients/grok.ts)
    stEvents,       \* SSE events of the response body not yet read
    stTail,         \* TRUE when the unterminated rest of the body holds [DONE]
    stEnding,       \* how the body ends: "eof" | "error"
    stText,         \* text collected by callGrokCollect
    stSawDone,      \* history: the generator yielded done
    stResp,         \* response of the route, or NoResponse
    stPc,            \* "idle" | "reading" | "done"
    \* ---- debug route: the background task of POST
    dbgModel,       \* model of the request body (default dual)
    dbgComplex,     \* isComplexError(errorCapture)
    dbgParsed,      \* parsed: what parseJSONResponse gave, after the refinement
    dbgI,           \* i of the fix loop
    dbgLog,         \* the chunks written to the stream, in order
    dbgUpserts,     \* fix index -> state of its detached upsert
    dbgCloses,      \* calls of writer.close()
    dbgThrown,      \* what threw into the catch of the background task
    dbgPc,           \* position of the background task
    \* ---- integrate route: concurrent requests and the cost monitor
    cmApiCalls,     \* costMonitor.apiCalls, one counter for the process
    cmIssued,       \* history: external calls issued (scrape, Grok, Claude)
    cmFigma,        \* request -> its prompt holds a Figma URL
    cmPc            \* request -> position of its POST handler

diffVars == <<dBefore, dAfter, dDiff, dOut, dPc>>
storeVars == <<files, userEdits, activePath, stagedChanges, ret, discarded>>

genVars == <<gReq, gRoute, gGrokText, gFinalText, gResp, gPc>>
intVars == <<apiCalls, iService, iGrokText, iFinalText, iResult, iResp, iPc>>
codecVars == <<cRaw, cParsed, cPc>>
editorVars == <<testResult, isTesting, testFresh, loading, genFiles, hardening, hardenFiles,
                integrating, integrateFiles, debugModal, lastStaged, lastBy, prevBy, raced,
                racers>>
simVars == <<sEmb, sRows, sMin, sLimit, sResp, sPc>>
retryVars == <<rText, retryCount, rWaitMs, rResult, rError, rFailures, rPc>>
streamVars == <<stEvents, stTail, stEnding, stText, stSawDone, stResp, stPc>>
dbgVars == <<dbgModel, dbgComplex, dbgParsed, dbgI, dbgLog, dbgUpserts, dbgCloses, dbgThrown, dbgPc>>
cmVars == <<cmApiCalls, cmIssued, cmFigma, cmPc>>

vars == <<dBefore, dAfter, dDiff, dOut, dPc,
          files, userEdits, activePath, stagedChanges, ret, discarded,
          gReq, gRoute, gGrokText, gFinalText, gResp, gPc,
          apiCalls, iService, iGrokText, iFinalText, iResult, iResp, iPc,
          cRaw, cParsed, cPc,
          testResult, isTesting, testFresh, loading, genFiles, hardening, hardenFiles,
          integrating, integrateFiles, debugModal, lastStaged, lastBy, prevBy, raced, racers,
          sEmb, sRows, sMin, sLimit, sResp, sPc,
          rText, retryCount, rWaitMs, rResult, rError, rFailures, rPc,
          stEvents, stTail, stEnding, stText, stSawDone, stResp, stPc,
          dbgModel, dbgComplex, dbgParsed, dbgI, dbgLog, dbgUpserts, dbgCloses, dbgThrown, dbgPc,
          cmApiCalls, cmIssued, cmFigma, cmPc>>

otherThanDiff ==
    <<storeVars, genVars, intVars, codecVars, editorVars, simVars, retryVars, streamVars, dbgVars, cmVars>>
otherThanStore ==
    <<diffVars, genVars, intVars, codecVars, editorVars, simVars, retryVars, streamVars, dbgVars, cmVars>>
otherThanGen ==
    <<diffVars, storeVars, intVars, codecVars, editorVars, simVars, retryVars, streamVars, dbgVars, cmVars>>
otherThanInt ==
    <<diffVars, storeVars, genVars, codecVars, editorVars, simVars, retryVars, streamVars, dbgVars, cmVars>>
otherThanCodec ==
    <<diffVars, storeVars, genVars, intVars, editorVars, simVars, retryVars, streamVars, dbgVars, cmVars>>
otherThanEditor ==
    <<diffVars, genVars, intVars, codecVars, simVars, retryVars, streamVars, dbgVars, cmVars>>
otherThanStream ==
    <<diffVars, storeVars, genVars, intVars, codecVars, editorVars, simVars, retryVars, dbgVars, cmVars>>
otherThanRetry ==
    <<diffVars, storeVars, genVars, intVars, codecVars, editorVars, simVars, streamVars, dbgVars, cmVars>>
otherThanSim ==
    <<diffVars, storeVars, genVars, intVars, codecVars, editorVars, retryVars, streamVars, dbgVars, cmVars>>
otherThanDbg ==
    <<diffVars, storeVars, genVars, intVars, codecVars, editorVars, simVars, retryVars, streamVars, cmVars>>
otherThanCm ==
    <<diffVars, storeVars, genVars, intVars, codecVars, editorVars, simVars, retryVars, streamVars, dbgVars>>

(***************************************************************************)
(* Bounds                                                                  *)
(***************************************************************************)
MaxLines == 2       \* lines per base/candidate text
MaxOps == 2         \* lines per model-written diff text
MaxStaged == 2      \* files per model response, so changes per staging round
MaxWords == 2       \* words per prompt
MaxRaw == 3         \* tokens per raw text handed to a codec
MaxSegs == 2        \* segments (blocks, prose) per model reply in a request
MaxResp == 1        \* files per response reaching a handler of the editor or gen page
MaxRows == 3        \* rows in the window fetched by the similarity query
MaxLimit == 2       \* limit parameter of the similarity query
MaxChunks == 2      \* text chunks of one stream of the fast model
MaxFixes == 2       \* elements of the fixes array of a debug answer
MaxRequests == 2    \* integrate requests in flight together

(***************************************************************************)
(* Strings                                                                 *)
(***************************************************************************)
NL == "\n"
NoText == <<"no-text">>           \* absence of a text (never a text itself)
Undefined == <<"undefined">>      \* JS undefined: an array read past the end

\* s.startsWith(p)
startsWith(s, p) == Len(s) >= Len(p) /\ SubSeq(s, 1, Len(p)) = p

\* s.slice(1)
slice1(s) == SubSeq(s, 2, Len(s))

\* s.split('\n'): always at least one element ('' splits to [''])
RECURSIVE split(_)
split(s) ==
    IF \E k \in 1..Len(s) : s[k] = NL
    THEN LET k == CHOOSE k \in 1..Len(s) : s[k] = NL /\ \A h \in 1..(k - 1) : s[h] # NL
         IN <<SubSeq(s, 1, k - 1)>> \o split(SubSeq(s, k + 1, Len(s)))
    ELSE <<s>>

\* lines.join('\n'): [] joins to ''
RECURSIVE join(_)
join(lines) ==
    IF Len(lines) = 0 THEN <<>>
    ELSE IF Len(lines) = 1 THEN lines[1]
    ELSE lines[1] \o <<NL>> \o join(Tail(lines))

\* arr[i] with a 0-based index; undefined past the end
at(arr, i) == IF i >= 0 /\ i < Len(arr) THEN arr[i + 1] ELSE Undefined

Max(a, b) == IF a >= b THEN a ELSE b

SeqsUpTo(S, n) == UNION {[1..k -> S] : k \in 0..n}
NonEmptySeqsUpTo(S, n) == UNION {[1..k -> S] : k \in 1..n}

(***************************************************************************)
(* Diff engine: unifiedDiff (gen route) and applyUnifiedDiff (harden route) *)
(***************************************************************************)
\* mutant: at a tie the after line is consumed first
preferDeleteStrict(delLen, addLen) == delLen > addLen

\* dp[i+1][j] >= dp[i][j+1]: at a tie the before line is consumed first
preferDelete(delLen, addLen) == delLen >= addLen

unifiedDiff(oldText, newText) ==
    LET oldLines == split(oldText)
        newLines == split(newText)
        m == Len(oldLines)
        n == Len(newLines)
        dp[i \in 0..m, j \in 0..n] ==
            IF i = m \/ j = n THEN 0
            ELSE IF oldLines[i + 1] = newLines[j + 1] THEN dp[i + 1, j + 1] + 1
            ELSE Max(dp[i + 1, j], dp[i, j + 1])
        RECURSIVE walk(_, _)
        walk(i, j) ==
            IF i < m /\ j < n THEN
                IF oldLines[i + 1] = newLines[j + 1]
                THEN <<<<" ">> \o oldLines[i + 1]>> \o walk(i + 1, j + 1)
                ELSE IF preferDelete(dp[i + 1, j], dp[i, j + 1])
                THEN <<<<"-">> \o oldLines[i + 1]>> \o walk(i + 1, j)
                ELSE <<<<"+">> \o newLines[j + 1]>> \o walk(i, j + 1)
            ELSE IF i < m THEN <<<<"-">> \o oldLines[i + 1]>> \o walk(i + 1, j)
            ELSE IF j < n THEN <<<<"+">> \o newLines[j + 1]>> \o walk(i, j + 1)
            ELSE <<>>
    IN join(walk(0, 0))

\* a header line of a unified diff: '--- ', '+++ ' or '@@'
isHeader(line) ==
    \/ startsWith(line, <<"-", "-", "-", " ">>)
    \/ startsWith(line, <<"+", "+", "+", " ">>)
    \/ startsWith(line, <<"@", "@">>)

\* lines.filter(line => !header(line))
RECURSIVE filterHeaders(_)
filterHeaders(lines) ==
    IF lines = <<>> THEN <<>>
    ELSE IF isHeader(Head(lines)) THEN filterHeaders(Tail(lines))
    ELSE <<Head(lines)>> \o filterHeaders(Tail(lines))

parseUnifiedDiff(diffText) == filterHeaders(split(diffText))

\* mutant: the lines collected so far are returned (a truncated file)
onContextMismatchTruncates(before, result) == join(result)

\* what the applier returns when a context line does not match
onContextMismatch(before, result) == before

\* mutant: a deletion that does not match skips the base line all the same
onDeletionMismatchSkips(i) == i + 1

\* else mismatch; continue without advancing
onDeletionMismatch(i) == i

\* the loop over the operations, then the tail of before; copyUnknown is the
\* last else branch (server: push the line, client: no such branch)
RECURSIVE applyOps(_, _, _, _, _, _)
applyOps(before, beforeLines, ops, i, result, copyUnknown) ==
    IF ops = <<>> THEN
        join(result \o SubSeq(beforeLines, i + 1, Len(beforeLines)))
    ELSE
        LET op == Head(ops) IN
        IF startsWith(op, <<" ">>) THEN
            IF at(beforeLines, i) = slice1(op)
            THEN applyOps(before, beforeLines, Tail(ops), i + 1,
                          Append(result, slice1(op)), copyUnknown)
            ELSE onContextMismatch(before, result)
        ELSE IF startsWith(op, <<"-">>) THEN
            IF at(beforeLines, i) = slice1(op)
            THEN applyOps(before, beforeLines, Tail(ops), i + 1, result, copyUnknown)
            ELSE applyOps(before, beforeLines, Tail(ops), onDeletionMismatch(i), result,
                          copyUnknown)
        ELSE IF startsWith(op, <<"+">>) THEN
            applyOps(before, beforeLines, Tail(ops), i, Append(result, slice1(op)), copyUnknown)
        ELSE IF copyUnknown THEN
            applyOps(before, beforeLines, Tail(ops), i, Append(result, op), copyUnknown)
        ELSE
            applyOps(before, beforeLines, Tail(ops), i, result, copyUnknown)

applyUnifiedDiff(before, diffText) ==
    applyOps(before, split(before), parseUnifiedDiff(diffText), 0, <<>>, TRUE)

applyUnifiedDiffClient(before, unified) ==
    applyOps(before, split(before), parseUnifiedDiff(unified), 0, <<>>, FALSE)

\* String.prototype.trim on a text: spaces and line breaks at both ends go
isSpace(c) == c \in {" ", NL}

RECURSIVE trimTextStart(_)
trimTextStart(s) == IF s # <<>> /\ isSpace(Head(s)) THEN trimTextStart(Tail(s)) ELSE s

RECURSIVE trimTextEnd(_)
trimTextEnd(s) ==
    IF s # <<>> /\ isSpace(s[Len(s)]) THEN trimTextEnd(SubSeq(s, 1, Len(s) - 1)) ELSE s

trimText(s) == trimTextEnd(trimTextStart(s))

\* harden route, one <diff path=p> block of the model's text: the content
\* returned for p, or NoText when the patched content equals the submitted one
hardenChange(before, diffBlock) ==
    LET diffBody == trimText(diffBlock)
        after == applyUnifiedDiff(before, diffBody)
    IN IF after # before THEN after ELSE NoText

(***************************************************************************)
(* Files store: src/unnamed/part_003 (useFilesStore)                       *)
(***************************************************************************)
NoPath == "undefined"
NoReturn == [applied |-> -1, skipped |-> -1]
Empty == <<>>                               \* the empty function: files = {}

Paths == {"a.txt", "b.txt"}
Content == {<<"a">>, <<"b">>}               \* file contents (texts)
Models == {"grok", "claude"}

\* typeof files[path] === 'string' ? files[path] : ''
fileOrEmpty(fs, path) == IF path \in DOMAIN fs THEN fs[path] ELSE <<>>

\* { ...fs, [path]: content }
withFile(fs, path, content) ==
    [p \in (DOMAIN fs) \cup {path} |-> IF p = path THEN content ELSE fs[p]]

StoreInit ==
    /\ files = Empty
    /\ userEdits = {}
    /\ activePath = NoPath
    /\ stagedChanges = <<>>
    /\ ret = NoReturn
    /\ discarded = -1

\* mutant: loading a new file map forgets the local edits
setFilesResetsEdits(fs, first) ==
    /\ files' = fs
    /\ activePath' = first
    /\ ret' = NoReturn
    /\ discarded' = -1
    /\ userEdits' = {}
    /\ UNCHANGED stagedChanges

\* setFiles(files): first is Object.keys(files)[0]
setFiles(fs, first) ==
    /\ files' = fs
    /\ activePath' = first
    /\ ret' = NoReturn
    /\ discarded' = -1
    /\ UNCHANGED <<userEdits, stagedChanges>>

updateFile(path, content) ==
    /\ files' = withFile(files, path, content)
    /\ userEdits' = userEdits \cup {path}
    /\ ret' = NoReturn
    /\ discarded' = -1
    /\ UNCHANGED <<activePath, stagedChanges>>

\* openTab(path) / setActive(path)
setActive(path) ==
    /\ activePath' = path
    /\ ret' = NoReturn
    /\ discarded' = -1
    /\ UNCHANGED <<files, userEdits, stagedChanges>>

\* mutant: a stage call appends to the pending set
stagedAfterStageMerges(old, changes) == old \o changes

\* set({ stagedChanges: changes })
stagedAfterStage(old, changes) == changes

setStagedChanges(changes) ==
    /\ stagedChanges' = stagedAfterStage(stagedChanges, changes)
    /\ ret' = NoReturn
    /\ discarded' = -1
    /\ UNCHANGED <<files, userEdits, activePath>>

\* mutant: discarding also forgets the local edits
clearStagedChangesForgetsEdits ==
    /\ stagedChanges' = <<>>
    /\ ret' = NoReturn
    /\ discarded' = Len(stagedChanges)
    /\ userEdits' = {}
    /\ UNCHANGED <<files, activePath>>

\* set({ stagedChanges: [] })
clearStagedChanges ==
    /\ stagedChanges' = <<>>
    /\ ret' = NoReturn
    /\ discarded' = Len(stagedChanges)
    /\ UNCHANGED <<files, userEdits, activePath>>

\* mutant: the local-edit check is dropped
skipChangeNever(edits, change) == FALSE

\* if (edits.has(change.path)) { skipped++; continue; }
skipChange(edits, change) == change.path \in edits

\* the for loop of applyStagedChanges over the staged changes
RECURSIVE applyLoop(_, _, _, _, _)
applyLoop(changes, nextFiles, edits, applied, skipped) ==
    IF changes = <<>> THEN
        [files |-> nextFiles, edits |-> edits, applied |-> applied, skipped |-> skipped]
    ELSE
        LET change == Head(changes) IN
        IF skipChange(edits, change) THEN
            applyLoop(Tail(changes), nextFiles, edits, applied, skipped + 1)
        ELSE
            applyLoop(Tail(changes),
                      withFile(nextFiles, change.path, change.after),
                      IF change.path \in edits THEN edits \ {change.path} ELSE edits,
                      applied + 1, skipped)

\* mutant: the pending set is kept when a change was skipped
stagedAfterApplyKeepsSkipped(r) == IF r.skipped > 0 THEN stagedChanges ELSE <<>>

\* set({ ..., stagedChanges: [] })
stagedAfterApply(r) == <<>>

applyStagedChanges ==
    LET r == applyLoop(stagedChanges, files, userEdits, 0, 0) IN
    /\ files' = r.files
    /\ stagedChanges' = stagedAfterApply(r)
    /\ userEdits' = r.edits
    /\ ret' = [applied |-> r.applied, skipped |-> r.skipped]
    /\ discarded' = -1
    /\ UNCHANGED activePath

\* ---- callers of the store API
\* what a model response carries: a list of {path, content}
FileRecs == [path : Paths, content : Content]
Responses == SeqsUpTo(FileRecs, MaxStaged)

\* data.files.map(f => ({ path, before: files[f.path] or '', after: f.content, modelUsed }))
stagedFrom(resp, fs, modelUsed) ==
    [k \in 1..Len(resp) |->
        [path |-> resp[k].path,
         before |-> fileOrEmpty(fs, resp[k].path),
         after |-> resp[k].content,
         modelUsed |-> modelUsed]]

\* argument of setFiles: an object with its first key
FileMaps == UNION {[S -> Content] : S \in SUBSET Paths}
FileMapsWithFirst ==
    {<<fs, first>> \in FileMaps \X (Paths \cup {NoPath}) :
        IF DOMAIN fs = {} THEN first = NoPath ELSE first \in DOMAIN fs}

StoreSetFiles ==
    /\ \E a \in FileMapsWithFirst : setFiles(a[1], a[2])
    /\ UNCHANGED otherThanStore

StoreUpdateFile ==
    /\ \E p \in Paths, c \in Content : updateFile(p, c)
    /\ UNCHANGED otherThanStore

StoreSetStagedChanges ==
    /\ \E resp \in Responses :
        setStagedChanges(stagedFrom(resp, files, "grok"))
    /\ UNCHANGED otherThanStore

StoreClearStagedChanges ==
    /\ clearStagedChanges
    /\ UNCHANGED otherThanStore

StoreApplyStagedChanges ==
    /\ applyStagedChanges
    /\ UNCHANGED otherThanStore

StoreNext ==
    \/ StoreSetFiles
    \/ StoreUpdateFile
    \/ StoreSetStagedChanges
    \/ StoreClearStagedChanges
    \/ StoreApplyStagedChanges


(***************************************************************************)
(* Routing policy: src/app/api/gen/route.ts decideRoute                    *)
(***************************************************************************)
Undef == "undefined"

\* String.prototype.toLowerCase on the letters the prompts use
toLowerChar(c) ==
    CASE c = "B" -> "b" [] c = "U" -> "u" [] c = "I" -> "i" [] c = "L" -> "l"
      [] c = "D" -> "d" [] c = "R" -> "r" [] c = "E" -> "e" [] c = "F" -> "f"
      [] c = "N" -> "n" [] OTHER -> c

toLowerCase(str) == [k \in 1..Len(str) |-> toLowerChar(str[k])]

\* str.includes(sub)
includes(str, sub) ==
    \E k \in 1..(Len(str) - Len(sub) + 1) : SubSeq(str, k, k + Len(sub) - 1) = sub

kwBuild == <<"b", "u", "i", "l", "d">>
kwCreative == <<"c", "r", "e", "a", "t", "i", "v", "e">>
kwRefine == <<"r", "e", "f", "i", "n", "e">>
kwHarden == <<"h", "a", "r", "d", "e", "n">>

\* mutant: the keyword scan is consulted before the vibe preset
decideRouteKeywordsFirst(prompt, vibe, mode) ==
    LET lower == toLowerCase(IF prompt = Undefined THEN <<>> ELSE prompt) IN
    IF mode = "dual" \/ vibe = "dual" THEN "dual"
    ELSE IF includes(lower, kwBuild) \/ includes(lower, kwCreative) THEN "grok"
    ELSE IF includes(lower, kwRefine) \/ includes(lower, kwHarden) THEN "claude"
    ELSE IF vibe = "scrappy" THEN "grok"
    ELSE IF vibe = "enterprise" THEN "claude"
    ELSE "grok"

\* mutant: the modes 'fast' and 'refine' choose the model
decideRouteHonoursMode(prompt, vibe, mode) ==
    LET lower == toLowerCase(IF prompt = Undefined THEN <<>> ELSE prompt) IN
    IF mode = "dual" \/ vibe = "dual" THEN "dual"
    ELSE IF mode = "fast" THEN "grok"
    ELSE IF mode = "refine" THEN "claude"
    ELSE IF vibe = "scrappy" THEN "grok"
    ELSE IF vibe = "enterprise" THEN "claude"
    ELSE IF includes(lower, kwBuild) \/ includes(lower, kwCreative) THEN "grok"
    ELSE IF includes(lower, kwRefine) \/ includes(lower, kwHarden) THEN "claude"
    ELSE "grok"

decideRoute(prompt, vibe, mode) ==
    LET lower == toLowerCase(IF prompt = Undefined THEN <<>> ELSE prompt) IN
    IF mode = "dual" \/ vibe = "dual" THEN "dual"
    ELSE IF vibe = "scrappy" THEN "grok"
    ELSE IF vibe = "enterprise" THEN "claude"
    ELSE IF includes(lower, kwBuild) \/ includes(lower, kwCreative) THEN "grok"
    ELSE IF includes(lower, kwRefine) \/ includes(lower, kwHarden) THEN "claude"
    ELSE "grok"

(***************************************************************************)
(* Output codec: parseOutputToJson (gen route), parseOutput (integrate).   *)
(* A raw model text is a sequence of tokens: a tag is one token, a         *)
(* whitespace character is the token WS, anything else is a text token.    *)
(***************************************************************************)
FileOpenA == "<file path=\"a.jsx\">"
FileOpenNone == "<file path=\"\">"          \* no path: not matched by [^"]+
FileClose == "</file>"
ExplOpen == "<explanation>"
ExplClose == "</explanation>"
TestsOpen == "<tests>"
TestsClose == "</tests>"
WS == " "
DefaultPath == "src/App.jsx"

pathOf(tok) == IF tok = FileOpenA THEN "a.jsx" ELSE Undef

\* String.prototype.trim
RECURSIVE trimStart(_)
trimStart(str) ==
    IF str # <<>> /\ Head(str) = WS THEN trimStart(Tail(str)) ELSE str

RECURSIVE trimEnd(_)
trimEnd(str) ==
    IF str # <<>> /\ str[Len(str)] = WS THEN trimEnd(SubSeq(str, 1, Len(str) - 1)) ELSE str

trim(str) == trimEnd(trimStart(str))

\* first match at or after position from of  open ([\s\S]*?) close : the
\* leftmost opening token with a closing token after it, up to the nearest one
hasMatch(raw, from, open, close) ==
    \E st \in from..Len(raw) : raw[st] = open /\ \E e \in (st + 1)..Len(raw) : raw[e] = close

matchStart(raw, from, open, close) ==
    CHOOSE st \in from..Len(raw) :
        /\ raw[st] = open /\ \E e \in (st + 1)..Len(raw) : raw[e] = close
        /\ \A h \in from..(st - 1) :
            ~(raw[h] = open /\ \E e \in (h + 1)..Len(raw) : raw[e] = close)

matchEnd(raw, st, close) ==
    CHOOSE e \in (st + 1)..Len(raw) :
        raw[e] = close /\ \A h \in (st + 1)..(e - 1) : raw[h] # close

\* while ((m = fileRegex.exec(raw)) !== null) files.push({ path: m[1], content: m[2].trim() })
RECURSIVE fileBlocks(_, _)
fileBlocks(raw, from) ==
    IF hasMatch(raw, from, FileOpenA, FileClose) THEN
        LET st == matchStart(raw, from, FileOpenA, FileClose)
            e == matchEnd(raw, st, FileClose)
        IN <<[path |-> pathOf(raw[st]), content |-> trim(SubSeq(raw, st + 1, e - 1))]>>
               \o fileBlocks(raw, e + 1)
    ELSE <<>>

\* (raw.match(/<tag>([\s\S]*?)<\/tag>/)?.[1] || '').trim()
section(raw, open, close) ==
    IF hasMatch(raw, 1, open, close) THEN
        LET st == matchStart(raw, 1, open, close)
            e == matchEnd(raw, st, close)
        IN trim(SubSeq(raw, st + 1, e - 1))
    ELSE <<>>

withModel(blocks, modelUsed) ==
    [k \in 1..Len(blocks) |->
        [path |-> blocks[k].path, content |-> blocks[k].content,
         diff |-> FALSE, modelUsed |-> modelUsed]]

\* mutant: no fallback file for text without file blocks
fallbackFileNone(raw, found, modelUsed) == found

\* if (files.length === 0 && raw.trim().length > 0) files.push({ path: 'src/App.jsx', ... })
fallbackFile(raw, found, modelUsed) ==
    IF Len(found) = 0 /\ Len(trim(raw)) > 0
    THEN <<[path |-> DefaultPath, content |-> trim(raw), diff |-> FALSE, modelUsed |-> modelUsed]>>
    ELSE found

parseOutputToJson(raw, modelUsed) ==
    [files |-> fallbackFile(raw, withModel(fileBlocks(raw, 1), modelUsed), modelUsed),
     explanation |-> section(raw, ExplOpen, ExplClose),
     tests |-> section(raw, TestsOpen, TestsClose)]

\* the integrate route's parser: no fallback file, no diff/modelUsed fields
parseOutput(raw, modelUsed) ==
    [files |-> fileBlocks(raw, 1),
     explanation |-> section(raw, ExplOpen, ExplClose),
     tests |-> section(raw, TestsOpen, TestsClose)]

(***************************************************************************)
(* Chained orchestration                                                   *)
(***************************************************************************)
\* baseFiles of a request: given or not, and the path -> content map when given
NoBaseFiles == [given |-> FALSE, map |-> [p \in {} |-> <<>>]]
NoRequest == [prompt |-> Undefined, vibe |-> Undef, mode |-> Undef, baseFiles |-> NoBaseFiles]
NoResponse == [status |-> 0]
NoResult == [files |-> <<>>, explanation |-> NoText, tests |-> NoText]

\* mutant: the refine model's parse is returned even when it holds no file
preferRefineAlways(parsedClaude, parsedGrok) == parsedClaude

\* gen route: if (parsedClaude.files.length > 0) ... else fall back to Grok
preferRefine(parsedClaude, parsedGrok) ==
    IF Len(parsedClaude.files) > 0 THEN parsedClaude ELSE parsedGrok

\* integrate route: if (parsedClaude.files.length > 0) return parsedClaude; return parseOutput(grokText)
dualRouterPick(parsedClaude, parsedGrok) ==
    IF Len(parsedClaude.files) > 0 THEN parsedClaude ELSE parsedGrok

\* files.map(f => ({ ...f, diff: before !== after })) when baseFiles is an object
withDiffFlags(fls, baseFiles) ==
    IF ~baseFiles.given THEN fls
    ELSE [k \in 1..Len(fls) |->
            [fls[k] EXCEPT !.diff = (fileOrEmpty(baseFiles.map, fls[k].path) # fls[k].content)]]

genOk(parsed, baseFiles) ==
    [status |-> 200, files |-> withDiffFlags(parsed.files, baseFiles),
     explanation |-> parsed.explanation, tests |-> parsed.tests]

genError(code) == [status |-> code]

\* costMonitor
limit == 1000
checkLimit(calls) == ~(calls >= limit)

InfoFile == [path |-> "INTEGRATION_INFO.md", content |-> <<"info">>]

\* result.files.unshift(INTEGRATION_INFO.md) when a service was detected
integrateOk(result, service) ==
    [status |-> 200,
     files |-> IF service THEN <<InfoFile>> \o result.files ELSE result.files,
     explanation |-> result.explanation, tests |-> result.tests]

(***************************************************************************)
(* Inputs of the diff engine                                               *)
(***************************************************************************)
\* source lines: '', 'a', 'b', a SQL/Lua comment '-- a', and '++ a'
LineVocab ==
    { <<>>, <<"a">>, <<"b">>, <<"-", "-", " ", "a">>, <<"+", "+", " ", "a">> }

Texts == {join(ls) : ls \in NonEmptySeqsUpTo(LineVocab, MaxLines)}

\* lines of a diff written by a generative model: context, deletion, addition,
\* a hunk header and a line with no marker
OpVocab ==
    { <<" ", "a">>, <<" ", "b">>, <<"-", "a">>, <<"+", "b">>,
      <<"@", "@">>, <<"b">> }

DiffTexts == {join(ls) : ls \in NonEmptySeqsUpTo(OpVocab, MaxOps)}

DiffIdle ==
    /\ dBefore = NoText
    /\ dAfter = NoText
    /\ dDiff = NoText
    /\ dOut = NoText
    /\ dPc = "idle"

DiffStart ==
    /\ dBefore \in Texts
    /\ dAfter = NoText
    /\ dDiff = NoText
    /\ dOut = NoText
    /\ dPc = "start"

\* Compute(before, after)
DiffCompute ==
    /\ dPc = "start"
    /\ \E a \in Texts :
        /\ dAfter' = a
        /\ dDiff' = unifiedDiff(dBefore, a)
    /\ dPc' = "diffed"
    /\ UNCHANGED <<dBefore, dOut>>
    /\ UNCHANGED otherThanDiff

\* a diff that comes from the model instead of from unifiedDiff
DiffFromModel ==
    /\ dPc = "start"
    /\ \E d \in DiffTexts : dDiff' = d
    /\ dPc' = "diffed"
    /\ UNCHANGED <<dBefore, dAfter, dOut>>
    /\ UNCHANGED otherThanDiff

\* Apply(before, diff), server side (harden route)
DiffApply ==
    /\ dPc = "diffed"
    /\ dOut' = applyUnifiedDiff(dBefore, dDiff)
    /\ dPc' = "applied"
    /\ UNCHANGED <<dBefore, dAfter, dDiff>>
    /\ UNCHANGED otherThanDiff

\* Apply(before, diff), client side (editor, Apply Fix)
DiffApplyClient ==
    /\ dPc = "diffed"
    /\ dOut' = applyUnifiedDiffClient(dBefore, dDiff)
    /\ dPc' = "appliedClient"
    /\ UNCHANGED <<dBefore, dAfter, dDiff>>
    /\ UNCHANGED otherThanDiff

\* POST of the harden route on a model text with one diff block for a
\* submitted file
DiffHarden ==
    /\ dPc = "diffed"
    /\ dOut' = hardenChange(dBefore, dDiff)
    /\ dPc' = "hardened"
    /\ UNCHANGED <<dBefore, dAfter, dDiff>>
    /\ UNCHANGED otherThanDiff

DiffNext == DiffCompute \/ DiffFromModel \/ DiffApply \/ DiffApplyClient \/ DiffHarden

(***************************************************************************)
(* Inputs of the routes and the codecs                                     *)
(***************************************************************************)
RECURSIVE flatten(_)
flatten(seqs) == IF seqs = <<>> THEN <<>> ELSE Head(seqs) \o flatten(Tail(seqs))

RECURSIVE joinWords(_)
joinWords(ws) ==
    IF Len(ws) = 0 THEN <<>>
    ELSE IF Len(ws) = 1 THEN ws[1]
    ELSE ws[1] \o <<" ">> \o joinWords(Tail(ws))

\* 'Build', 'creative', 'REFINE', 'harden', 'make'
WordVocab ==
    { <<"B", "u", "i", "l", "d">>, kwCreative, <<"R", "E", "F", "I", "N", "E">>,
      kwHarden, <<"m", "a", "k", "e">> }

Prompts == {joinWords(ws) : ws \in SeqsUpTo(WordVocab, MaxWords)} \cup {Undefined}
Vibes == {Undef, "scrappy", "enterprise", "dual", "a11y"}
Modes == {Undef, "dual", "fast", "refine"}

RouteRequests == [prompt : Prompts, vibe : Vibes, mode : Modes, baseFiles : {NoBaseFiles}]

\* requests of the orchestration runs: one per route, with and without baseFiles
BaseA == [given |-> TRUE, map |-> [p \in {"a.jsx"} |-> <<"X">>]]
GenRequests ==
    [prompt : {<<"m", "a", "k", "e">>, kwRefine}, vibe : {Undef},
     mode : {Undef, "dual"}, baseFiles : {NoBaseFiles, BaseA}]

\* what a model replies: file, explanation and tests blocks, prose, blanks
Segments ==
    { <<FileOpenA, "X", FileClose>>, <<ExplOpen, "E", ExplClose>>,
      <<TestsOpen, "T", TestsClose>>, <<"P">>, <<WS>> }

ModelTexts == {flatten(sg) : sg \in SeqsUpTo(Segments, MaxSegs)}

RawVocab ==
    { FileOpenA, FileOpenNone, FileClose, ExplOpen, ExplClose,
      TestsOpen, TestsClose, WS, "X" }

RawTexts == SeqsUpTo(RawVocab, MaxRaw)

(***************************************************************************)
(* Gen route: POST of src/app/api/gen/route.ts                             *)
(***************************************************************************)
GenIdle ==
    /\ gReq = NoRequest
    /\ gRoute = "none"
    /\ gGrokText = NoText
    /\ gFinalText = NoText
    /\ gResp = NoResponse
    /\ gPc = "idle"

GenStart(requests) ==
    /\ gReq \in requests
    /\ gRoute = "none"
    /\ gGrokText = NoText
    /\ gFinalText = NoText
    /\ gResp = NoResponse
    /\ gPc = "received"

\* up to the first model call: the prompt check and decideRoute
GenReceive ==
    /\ gPc = "received"
    /\ IF gReq.prompt = Undefined \/ gReq.prompt = <<>>
       THEN /\ gResp' = genError(400)
            /\ gPc' = "done"
            /\ UNCHANGED gRoute
       ELSE /\ gRoute' = decideRoute(gReq.prompt, gReq.vibe, gReq.mode)
            /\ gPc' = IF gRoute' = "claude" THEN "awaitClaude" ELSE "awaitGrok"
            /\ UNCHANGED gResp
    /\ UNCHANGED <<gReq, gGrokText, gFinalText>>
    /\ UNCHANGED otherThanGen

\* callGrokCollect returns the collected text
GenGrokReturns ==
    /\ gPc = "awaitGrok"
    /\ \E text \in ModelTexts :
        /\ gGrokText' = text
        /\ IF gRoute = "grok"
           THEN /\ gResp' = genOk(parseOutputToJson(text, "grok"), gReq.baseFiles)
                /\ gPc' = "done"
           ELSE /\ gPc' = "awaitClaude"
                /\ UNCHANGED gResp
    /\ UNCHANGED <<gReq, gRoute, gFinalText>>
    /\ UNCHANGED otherThanGen

\* callClaudeCollect returns result.text || ''
GenClaudeReturns ==
    /\ gPc = "awaitClaude"
    /\ \E text \in ModelTexts :
        /\ gFinalText' = text
        /\ gResp' =
            IF gRoute = "claude"
            THEN genOk(parseOutputToJson(text, "claude"), gReq.baseFiles)
            ELSE genOk(preferRefine(parseOutputToJson(text, "claude"),
                                    parseOutputToJson(gGrokText, "grok")),
                       gReq.baseFiles)
    /\ gPc' = "done"
    /\ UNCHANGED <<gReq, gRoute, gGrokText>>
    /\ UNCHANGED otherThanGen

\* a model call throws (rate limit, provider error): catch, status 500
GenCallFails ==
    /\ gPc \in {"awaitGrok", "awaitClaude"}
    /\ gResp' = genError(500)
    /\ gPc' = "done"
    /\ UNCHANGED <<gReq, gRoute, gGrokText, gFinalText>>
    /\ UNCHANGED otherThanGen

(***************************************************************************)
(* Integrate route: POST and dualRouterGenerate of src/unnamed/part_000    *)
(* (a prompt without a Figma URL)                                          *)
(***************************************************************************)
IntIdle ==
    /\ apiCalls = 0
    /\ iService = FALSE
    /\ iGrokText = NoText
    /\ iFinalText = NoText
    /\ iResult = NoResult
    /\ iResp = NoResponse
    /\ iPc = "idle"

\* the counter is process-wide: a request finds it at 0 or near the limit
IntStart ==
    /\ apiCalls \in {0, limit - 2, limit - 1}
    /\ iService \in BOOLEAN
    /\ iGrokText = NoText
    /\ iFinalText = NoText
    /\ iResult = NoResult
    /\ iResp = NoResponse
    /\ iPc = "received"

\* dualRouterGenerate up to the call of the fast model
IntReceive ==
    /\ iPc = "received"
    /\ apiCalls' = apiCalls + 1
    /\ IF ~checkLimit(apiCalls')
       THEN /\ iResp' = genError(500)
            /\ iPc' = "done"
       ELSE /\ iPc' = "awaitGrok"
            /\ UNCHANGED iResp
    /\ UNCHANGED <<iService, iGrokText, iFinalText, iResult>>
    /\ UNCHANGED otherThanInt

\* the fast model's stream ends; step 2 tracks the refine call and checks the limit
IntGrokReturns ==
    /\ iPc = "awaitGrok"
    /\ apiCalls' = apiCalls + 1
    /\ \E text \in ModelTexts :
        /\ iGrokText' = text
        /\ IF ~checkLimit(apiCalls')
           THEN /\ iResult' = parseOutput(text, "grok")
                /\ iResp' = integrateOk(iResult', iService)
                /\ iPc' = "done"
           ELSE /\ iPc' = "awaitClaude"
                /\ UNCHANGED <<iResult, iResp>>
    /\ UNCHANGED <<iService, iFinalText>>
    /\ UNCHANGED otherThanInt

\* callGrok throws: rethrown by dualRouterGenerate, POST answers 500
IntGrokFails ==
    /\ iPc = "awaitGrok"
    /\ iResp' = genError(500)
    /\ iPc' = "done"
    /\ UNCHANGED <<apiCalls, iService, iGrokText, iFinalText, iResult>>
    /\ UNCHANGED otherThanInt

IntClaudeReturns ==
    /\ iPc = "awaitClaude"
    /\ \E text \in ModelTexts :
        /\ iFinalText' = text
        /\ iResult' = dualRouterPick(parseOutput(text, "claude"), parseOutput(iGrokText, "grok"))
    /\ iResp' = integrateOk(iResult', iService)
    /\ iPc' = "done"
    /\ UNCHANGED <<apiCalls, iService, iGrokText>>
    /\ UNCHANGED otherThanInt

\* generateText throws: caught, the fast model's parse is returned
IntClaudeFails ==
    /\ iPc = "awaitClaude"
    /\ iResult' = parseOutput(iGrokText, "grok")
    /\ iResp' = integrateOk(iResult', iService)
    /\ iPc' = "done"
    /\ UNCHANGED <<apiCalls, iService, iGrokText, iFinalText>>
    /\ UNCHANGED otherThanInt

(***************************************************************************)
(* A codec applied to a raw text                                           *)
(***************************************************************************)
CodecIdle ==
    /\ cRaw = NoText
    /\ cParsed = NoResult
    /\ cPc = "idle"

CodecStart ==
    /\ cRaw \in RawTexts
    /\ cParsed = NoResult
    /\ cPc = "start"

CodecParseGen ==
    /\ cPc = "start"
    /\ cParsed' = parseOutputToJson(cRaw, "grok")
    /\ cPc' = "parsedGen"
    /\ UNCHANGED cRaw
    /\ UNCHANGED otherThanCodec

CodecParseIntegrate ==
    /\ cPc = "start"
    /\ cParsed' = parseOutput(cRaw, "grok")
    /\ cPc' = "parsedIntegrate"
    /\ UNCHANGED cRaw
    /\ UNCHANGED otherThanCodec

RouteNext == GenReceive

GenNext ==
    \/ GenReceive
    \/ GenGrokReturns
    \/ GenClaudeReturns
    \/ GenCallFails
    \/ IntReceive
    \/ IntGrokReturns
    \/ IntGrokFails
    \/ IntClaudeReturns
    \/ IntClaudeFails

CodecNext == CodecParseGen \/ CodecParseIntegrate

(***************************************************************************)
(* Editor and gen page: src/unnamed/part_005 (EditorPane),                 *)
(* src/app/gen/page.tsx (GenPage). Each fetch is two steps: the click that *)
(* sends it, with the files its closure holds, and the handler's remainder *)
(* when the response arrives.                                              *)
(***************************************************************************)
NoTestResult == -1                      \* testResult === null
PassThreshold == 80                     \* passRate >= 0.8, in percent
TestRates == {0, 50, 80, 100}           \* passRate of a run, in percent
Requests == {"gen", "harden", "integrate"}
ModalClosed == [open |-> FALSE, diffs |-> <<>>]

\* testResult && testResult.passRate >= 0.8
passesGate(result) == result # NoTestResult /\ result >= PassThreshold

inFlight == {k \in Requests :
                \/ k = "gen" /\ loading
                \/ k = "harden" /\ hardening
                \/ k = "integrate" /\ integrating}

EditorIdle ==
    /\ testResult = NoTestResult
    /\ isTesting = FALSE
    /\ testFresh = FALSE
    /\ loading = FALSE
    /\ genFiles = Empty
    /\ hardening = FALSE
    /\ hardenFiles = Empty
    /\ integrating = FALSE
    /\ integrateFiles = Empty
    /\ debugModal = ModalClosed
    /\ lastStaged = <<>>
    /\ lastBy = "none"
    /\ prevBy = "none"
    /\ raced = FALSE
    /\ racers = {}

\* a handler calls setStagedChanges(staged)
stage(by, staged) ==
    /\ setStagedChanges(staged)
    /\ testFresh' = FALSE
    /\ lastStaged' = staged
    /\ lastBy' = by
    /\ prevBy' = lastBy
    /\ raced' = (by \in racers)
    /\ racers' = inFlight \ {by}

\* a handler ends without calling setStagedChanges
noStage(by) ==
    /\ ret' = NoReturn
    /\ discarded' = -1
    /\ racers' = racers \ {by}
    /\ UNCHANGED <<files, userEdits, activePath, stagedChanges>>
    /\ UNCHANGED <<testFresh, lastStaged, lastBy, prevBy, raced>>

\* if (staged.length > 0) setStagedChanges(staged)
stageIfAny(by, staged) ==
    IF Len(staged) > 0 THEN stage(by, staged) ELSE noStage(by)

\* the pending set is emptied: the record of the stage calls starts anew
stageLogReset ==
    /\ lastStaged' = <<>>
    /\ lastBy' = "none"
    /\ prevBy' = "none"
    /\ raced' = FALSE
    /\ racers' = {}

\* ---- inputs
StageFileRecs == [path : Paths, content : Content]
StageResponses == SeqsUpTo(StageFileRecs, MaxResp)
\* the gen route tags every file of a response with the model that wrote it
PageResponses ==
    {[k \in 1..Len(r) |-> [path |-> r[k].path, content |-> r[k].content, modelUsed |-> m]] :
        r \in StageResponses, m \in Models}
IntegrateResponses == StageResponses \cup {<<InfoFile>> \o r : r \in StageResponses}
\* '-a\n+b' and ' a\n+b'
FixUnified == { <<"-", "a", NL, "+", "b">>, <<" ", "a", NL, "+", "b">> }
\* the diffs of a fix: none, or one diff for one path
FixDiffs == {<<>>} \cup {<<d>> : d \in [path : Paths, unified : FixUnified]}

\* data.files.map(f => ({ path, before, after: f.content || '', modelUsed: f.modelUsed }))
stagedFromPage(resp, fs) ==
    [k \in 1..Len(resp) |->
        [path |-> resp[k].path,
         before |-> fileOrEmpty(fs, resp[k].path),
         after |-> resp[k].content,
         modelUsed |-> resp[k].modelUsed]]

\* data.files.filter(f => f.path !== 'INTEGRATION_INFO.md')
RECURSIVE withoutInfo(_)
withoutInfo(resp) ==
    IF resp = <<>> THEN <<>>
    ELSE IF Head(resp).path = InfoFile.path THEN withoutInfo(Tail(resp))
    ELSE <<Head(resp)>> \o withoutInfo(Tail(resp))

\* (f.diffs || []).map(d => ({ path, before, after: applyUnifiedDiffClient(before, d.unified), ... }))
stagedFromFix(diffs, fs) ==
    [k \in 1..Len(diffs) |->
        [path |-> diffs[k].path,
         before |-> fileOrEmpty(fs, diffs[k].path),
         after |-> applyUnifiedDiffClient(fileOrEmpty(fs, diffs[k].path), diffs[k].unified),
         modelUsed |-> "grok"]]

\* ---- GenPage.onSubmit
PageSubmit ==
    /\ ~loading
    /\ loading' = TRUE
    /\ genFiles' = files
    /\ ret' = NoReturn
    /\ discarded' = -1
    /\ UNCHANGED <<files, userEdits, activePath, stagedChanges>>
    /\ UNCHANGED <<testResult, isTesting, testFresh, hardening, hardenFiles, integrating,
                   integrateFiles, debugModal, lastStaged, lastBy, prevBy, raced, racers>>
    /\ UNCHANGED otherThanEditor

PageReturns ==
    /\ loading
    /\ \E resp \in PageResponses : stageIfAny("gen", stagedFromPage(resp, genFiles))
    /\ loading' = FALSE
    /\ genFiles' = Empty
    /\ UNCHANGED <<testResult, isTesting, hardening, hardenFiles, integrating,
                   integrateFiles, debugModal>>
    /\ UNCHANGED otherThanEditor

\* !res.ok or a network error: catch, setError
PageFails ==
    /\ loading
    /\ noStage("gen")
    /\ loading' = FALSE
    /\ genFiles' = Empty
    /\ UNCHANGED <<testResult, isTesting, hardening, hardenFiles, integrating,
                   integrateFiles, debugModal>>
    /\ UNCHANGED otherThanEditor

\* ---- EditorPane: Harden button
HardenClick ==
    /\ ~hardening
    /\ Len(stagedChanges) = 0
    /\ hardening' = TRUE
    /\ hardenFiles' = files
    /\ ret' = NoReturn
    /\ discarded' = -1
    /\ UNCHANGED <<files, userEdits, activePath, stagedChanges>>
    /\ UNCHANGED <<testResult, isTesting, testFresh, loading, genFiles, integrating,
                   integrateFiles, debugModal, lastStaged, lastBy, prevBy, raced, racers>>
    /\ UNCHANGED otherThanEditor

HardenReturns ==
    /\ hardening
    /\ \E resp \in StageResponses : stageIfAny("harden", stagedFrom(resp, hardenFiles, "claude"))
    /\ hardening' = FALSE
    /\ hardenFiles' = Empty
    /\ UNCHANGED <<testResult, isTesting, loading, genFiles, integrating,
                   integrateFiles, debugModal>>
    /\ UNCHANGED otherThanEditor

HardenFails ==
    /\ hardening
    /\ noStage("harden")
    /\ hardening' = FALSE
    /\ hardenFiles' = Empty
    /\ UNCHANGED <<testResult, isTesting, loading, genFiles, integrating,
                   integrateFiles, debugModal>>
    /\ UNCHANGED otherThanEditor

\* ---- EditorPane: handleIntegrate
IntegrateSubmit ==
    /\ ~integrating
    /\ Len(stagedChanges) = 0
    /\ integrating' = TRUE
    /\ integrateFiles' = files
    /\ ret' = NoReturn
    /\ discarded' = -1
    /\ UNCHANGED <<files, userEdits, activePath, stagedChanges>>
    /\ UNCHANGED <<testResult, isTesting, testFresh, loading, genFiles, hardening,
                   hardenFiles, debugModal, lastStaged, lastBy, prevBy, raced, racers>>
    /\ UNCHANGED otherThanEditor

IntegrateReturns ==
    /\ integrating
    /\ \E resp \in IntegrateResponses :
        stageIfAny("integrate", stagedFrom(withoutInfo(resp), integrateFiles, "grok"))
    /\ integrating' = FALSE
    /\ integrateFiles' = Empty
    /\ UNCHANGED <<testResult, isTesting, loading, genFiles, hardening,
                   hardenFiles, debugModal>>
    /\ UNCHANGED otherThanEditor

IntegrateFails ==
    /\ integrating
    /\ noStage("integrate")
    /\ integrating' = FALSE
    /\ integrateFiles' = Empty
    /\ UNCHANGED <<testResult, isTesting, loading, genFiles, hardening,
                   hardenFiles, debugModal>>
    /\ UNCHANGED otherThanEditor

\* ---- EditorPane: debug modal
\* handleErrorDetected: the /api/debug response opens the modal with its fixes
\* (the diffs of the fix the user will pick)
DebugReturns ==
    /\ \E diffs \in FixDiffs : debugModal' = [open |-> TRUE, diffs |-> diffs]
    /\ ret' = NoReturn
    /\ discarded' = -1
    /\ UNCHANGED <<files, userEdits, activePath, stagedChanges>>
    /\ UNCHANGED <<testResult, isTesting, testFresh, loading, genFiles, hardening, hardenFiles,
                   integrating, integrateFiles, lastStaged, lastBy, prevBy, raced, racers>>
    /\ UNCHANGED otherThanEditor

DebugClose ==
    /\ debugModal.open
    /\ debugModal' = ModalClosed
    /\ ret' = NoReturn
    /\ discarded' = -1
    /\ UNCHANGED <<files, userEdits, activePath, stagedChanges>>
    /\ UNCHANGED <<testResult, isTesting, testFresh, loading, genFiles, hardening, hardenFiles,
                   integrating, integrateFiles, lastStaged, lastBy, prevBy, raced, racers>>
    /\ UNCHANGED otherThanEditor

\* Apply Fix: stages the patched files and closes the modal
ApplyFixClick ==
    /\ debugModal.open
    /\ Len(stagedChanges) = 0
    /\ Len(debugModal.diffs) > 0
    /\ stage("fix", stagedFromFix(debugModal.diffs, files))
    /\ debugModal' = ModalClosed
    /\ UNCHANGED <<testResult, isTesting, loading, genFiles, hardening, hardenFiles,
                   integrating, integrateFiles>>
    /\ UNCHANGED otherThanEditor

\* ---- EditorPane: the Proposed changes modal (shown when stagedChanges.length > 0)
RunTestsClick ==
    /\ Len(stagedChanges) > 0
    /\ ~isTesting
    /\ isTesting' = TRUE
    /\ testResult' = NoTestResult
    /\ testFresh' = TRUE
    /\ ret' = NoReturn
    /\ discarded' = -1
    /\ UNCHANGED <<files, userEdits, activePath, stagedChanges>>
    /\ UNCHANGED <<loading, genFiles, hardening, hardenFiles, integrating, integrateFiles,
                   debugModal, lastStaged, lastBy, prevBy, raced, racers>>
    /\ UNCHANGED otherThanEditor

RunTestsReturns ==
    /\ isTesting
    /\ \E rate \in TestRates : testResult' = rate
    /\ isTesting' = FALSE
    /\ ret' = NoReturn
    /\ discarded' = -1
    /\ UNCHANGED <<files, userEdits, activePath, stagedChanges>>
    /\ UNCHANGED <<testFresh, loading, genFiles, hardening, hardenFiles, integrating,
                   integrateFiles, debugModal, lastStaged, lastBy, prevBy, raced, racers>>
    /\ UNCHANGED otherThanEditor

\* !res.ok || !data.success: setTestError, testResult stays null
RunTestsFails ==
    /\ isTesting
    /\ isTesting' = FALSE
    /\ ret' = NoReturn
    /\ discarded' = -1
    /\ UNCHANGED <<files, userEdits, activePath, stagedChanges>>
    /\ UNCHANGED <<testResult, testFresh, loading, genFiles, hardening, hardenFiles, integrating,
                   integrateFiles, debugModal, lastStaged, lastBy, prevBy, raced, racers>>
    /\ UNCHANGED otherThanEditor

\* Apply to Files: if (testResult && testResult.passRate >= 0.8)
\*                   { applyStagedChanges(); clearStagedChanges(); }
ApplyClick ==
    /\ Len(stagedChanges) > 0
    /\ passesGate(testResult)
    /\ LET r == applyLoop(stagedChanges, files, userEdits, 0, 0) IN
        /\ files' = r.files
        /\ userEdits' = r.edits
        /\ ret' = [applied |-> r.applied, skipped |-> r.skipped]
        /\ discarded' = -1
    /\ stagedChanges' = <<>>
    /\ stageLogReset
    /\ UNCHANGED activePath
    /\ UNCHANGED <<testResult, isTesting, testFresh, loading, genFiles, hardening, hardenFiles,
                   integrating, integrateFiles, debugModal>>
    /\ UNCHANGED otherThanEditor

\* Cancel
CancelClick ==
    /\ Len(stagedChanges) > 0
    /\ clearStagedChanges
    /\ stageLogReset
    /\ UNCHANGED <<testResult, isTesting, testFresh, loading, genFiles, hardening, hardenFiles,
                   integrating, integrateFiles, debugModal>>
    /\ UNCHANGED otherThanEditor

\* the editor with the Harden button as the source of staged changes
EditorNext ==
    \/ HardenClick
    \/ HardenReturns
    \/ HardenFails
    \/ RunTestsClick
    \/ RunTestsReturns
    \/ RunTestsFails
    \/ ApplyClick
    \/ CancelClick

\* every handler that stages changes, no test run and no apply
StageNext ==
    \/ PageSubmit
    \/ PageReturns
    \/ PageFails
    \/ HardenClick
    \/ HardenReturns
    \/ HardenFails
    \/ IntegrateSubmit
    \/ IntegrateReturns
    \/ IntegrateFails
    \/ DebugReturns
    \/ DebugClose
    \/ ApplyFixClick
    \/ CancelClick

\* the files the stage handlers find: none yet, or files applied earlier
StageFiles == {Empty, [p \in {"a.txt"} |-> <<"a">>]}

StageStart ==
    /\ files \in StageFiles
    /\ userEdits = {}
    /\ activePath = NoPath
    /\ stagedChanges = <<>>
    /\ ret = NoReturn
    /\ discarded = -1

(***************************************************************************)
(* Similarity query: GET of src/unnamed/part_002, cosineSimilarity of      *)
(* src/lib/store/sandbox-errors.ts. Scores are in percent.                 *)
(***************************************************************************)
Min(a, b) == IF a <= b THEN a ELSE b

\* Math.sqrt on the perfect squares the embeddings give
sqrtInt(n) == CHOOSE r \in 0..n : r * r = n

RECURSIVE sumTo(_, _)
sumTo(f, n) == IF n = 0 THEN 0 ELSE f[n] + sumTo(f, n - 1)

\* for (i < Math.min(a.length, b.length)) dot += a[i]*b[i]; na += a[i]*a[i]; nb += b[i]*b[i]
cosineSimilarity(a, b) ==
    LET n == Min(Len(a), Len(b))
        dot == sumTo([i \in 1..n |-> a[i] * b[i]], n)
        na == sumTo([i \in 1..n |-> a[i] * a[i]], n)
        nb == sumTo([i \in 1..n |-> b[i] * b[i]], n)
    IN IF na = 0 \/ nb = 0 THEN 0
       ELSE (100 * dot) \div (sqrtInt(na) * sqrtInt(nb))

\* mutant: the threshold is not applied
keepsRowAlways(score, minSim) == TRUE

\* .filter(r => r.score >= minSim)
keepsRow(score, minSim) == score >= minSim

RECURSIVE filterScored(_, _)
filterScored(scored, minSim) ==
    IF scored = <<>> THEN <<>>
    ELSE IF keepsRow(Head(scored).score, minSim)
         THEN <<Head(scored)>> \o filterScored(Tail(scored), minSim)
         ELSE filterScored(Tail(scored), minSim)

\* Array.prototype.sort is stable: r goes after every element it does not beat
RECURSIVE insertByScore(_, _)
insertByScore(sorted, r) ==
    IF sorted = <<>> THEN <<r>>
    ELSE IF r.score - Head(sorted).score > 0
         THEN <<r>> \o sorted
         ELSE <<Head(sorted)>> \o insertByScore(Tail(sorted), r)

\* .sort((a, b) => b.score - a.score)
RECURSIVE sortByScore(_)
sortByScore(scored) ==
    IF scored = <<>> THEN <<>>
    ELSE insertByScore(sortByScore(SubSeq(scored, 1, Len(scored) - 1)), scored[Len(scored)])

\* .slice(0, limit), limit >= 0
slice0(arr, n) == SubSeq(arr, 1, Min(n, Len(arr)))

similar(emb, rows, minSim, lim) ==
    LET scored == [k \in 1..Len(rows) |->
                     [id |-> rows[k].id, score |-> cosineSimilarity(emb, rows[k].embedding)]]
    IN slice0(sortByScore(filterScored(scored, minSim)), lim)

\* ---- inputs
Embeddings == { <<1, 0>>, <<0, 1>>, <<3, 4>>, <<4, 3>>, <<1>>, <<>> }
QueryEmbeddings == { <<1, 0>>, <<3, 4>> }
MinSims == {0, 70, 100}
Windows ==
    {[k \in 1..Len(es) |-> [id |-> k, embedding |-> es[k]]] : es \in SeqsUpTo(Embeddings, MaxRows)}

SimIdle ==
    /\ sEmb = <<>>
    /\ sRows = <<>>
    /\ sMin = 0
    /\ sLimit = 0
    /\ sResp = NoResponse
    /\ sPc = "idle"

SimStart ==
    /\ sEmb \in QueryEmbeddings
    /\ sRows \in Windows
    /\ sMin \in MinSims
    /\ sLimit \in 0..MaxLimit
    /\ sResp = NoResponse
    /\ sPc = "fetching"

\* the embedding and the rows arrive: score, filter, sort, slice, respond
SimilarReturns ==
    /\ sPc = "fetching"
    /\ sResp' = [status |-> 200, results |-> similar(sEmb, sRows, sMin, sLimit)]
    /\ sPc' = "done"
    /\ UNCHANGED <<sEmb, sRows, sMin, sLimit>>
    /\ UNCHANGED otherThanSim

\* getClaudeEmbedding throws or supabase returns an error: catch, status 500
SimilarFails ==
    /\ sPc = "fetching"
    /\ sResp' = [status |-> 500]
    /\ sPc' = "done"
    /\ UNCHANGED <<sEmb, sRows, sMin, sLimit>>
    /\ UNCHANGED otherThanSim

SimNext == SimilarReturns \/ SimilarFails

(***************************************************************************)
(* Rate-limit retry: callGrokCollect of src/app/api/debug/route.ts         *)
(***************************************************************************)
maxRetries == 3
Chunks == {"a", "b", "c"}
\* error.retryAfterMs: 0 when the provider sent no Retry-After
RetryAfter == {0, 5000}

\* mutant: every error is retried while the budget lasts
retryAllowedAnyError(kind, count) == count < maxRetries

\* error instanceof RateLimitError && retryCount < maxRetries
retryAllowed(kind, count) == kind = "rateLimit" /\ count < maxRetries

\* error.retryAfterMs || 1000 * (retryCount + 1)
waitMs(retryAfterMs, count) == IF retryAfterMs # 0 THEN retryAfterMs ELSE 1000 * (count + 1)

RetryIdle ==
    /\ rText = <<>>
    /\ retryCount = 0
    /\ rWaitMs = 0
    /\ rResult = NoText
    /\ rError = "none"
    /\ rFailures = <<>>
    /\ rPc = "idle"

\* the first pass of the while loop has begun: text = '', callGrok is awaited
RetryStart ==
    /\ rText = <<>>
    /\ retryCount = 0
    /\ rWaitMs = 0
    /\ rResult = NoText
    /\ rError = "none"
    /\ rFailures = <<>>
    /\ rPc = "streaming"

\* for await (chunk): text += chunk.text
RetryChunk ==
    /\ rPc = "streaming"
    /\ Len(rText) < MaxChunks
    /\ \E c \in Chunks : rText' = Append(rText, c)
    /\ UNCHANGED <<retryCount, rWaitMs, rResult, rError, rFailures, rPc>>
    /\ UNCHANGED otherThanRetry

\* the generator returns: return text
RetryStreamEnds ==
    /\ rPc = "streaming"
    /\ rResult' = rText
    /\ rPc' = "returned"
    /\ UNCHANGED <<rText, retryCount, rWaitMs, rError, rFailures>>
    /\ UNCHANGED otherThanRetry

\* the catch block for an error of the given kind
catchError(kind, retryAfterMs) ==
    /\ rFailures' = Append(rFailures, kind)
    /\ IF retryAllowed(kind, retryCount)
       THEN /\ rWaitMs' = waitMs(retryAfterMs, retryCount)
            /\ rPc' = "waiting"
            /\ UNCHANGED rError
       ELSE /\ rError' = kind
            /\ rPc' = "threw"
            /\ UNCHANGED rWaitMs
    /\ UNCHANGED <<rText, retryCount, rResult>>

\* callGrok throws RateLimitError: the response is a 429, before any chunk
RetryRateLimited ==
    /\ rPc = "streaming"
    /\ rText = <<>>
    /\ \E after \in RetryAfter : catchError("rateLimit", after)
    /\ UNCHANGED otherThanRetry

\* callGrok throws another error: a failed response, or a read that rejects
RetryOtherError ==
    /\ rPc = "streaming"
    /\ catchError("other", 0)
    /\ UNCHANGED otherThanRetry

\* the timeout fires: retryCount++, continue, and the next pass begins or the
\* loop ends
RetryBackoffEnds ==
    /\ rPc = "waiting"
    /\ retryCount' = retryCount + 1
    /\ rWaitMs' = 0
    /\ IF retryCount' <= maxRetries
       THEN /\ rText' = <<>>
            /\ rPc' = "streaming"
            /\ UNCHANGED rResult
       ELSE /\ rResult' = rText
            /\ rPc' = "returned"
            /\ UNCHANGED rText
    /\ UNCHANGED <<rError, rFailures>>
    /\ UNCHANGED otherThanRetry

RetryNext ==
    \/ RetryChunk
    \/ RetryStreamEnds
    \/ RetryRateLimited
    \/ RetryOtherError
    \/ RetryBackoffEnds

(***************************************************************************)
(* Fast-model stream: callGrok of src/lib/clients/grok.ts, collected by    *)
(* callGrokCollect and parsed by POST of src/app/api/gen/route.ts          *)
(***************************************************************************)
DoneEvent == [type |-> "done", text |-> ""]
ToolEvent == [type |-> "tool_call", text |-> ""]
TextEvents == [type : {"text"}, text : {FileOpenA, "X", FileClose}]
StreamEvents == TextEvents \cup {DoneEvent, ToolEvent}

StreamIdle ==
    /\ stEvents = <<>>
    /\ stTail = FALSE
    /\ stEnding = "eof"
    /\ stText = <<>>
    /\ stSawDone = FALSE
    /\ stResp = NoResponse
    /\ stPc = "idle"

\* the response is ok and its body is about to be read
StreamStart ==
    /\ stEvents \in SeqsUpTo(StreamEvents, MaxChunks)
    /\ stTail \in BOOLEAN
    /\ stEnding \in {"eof", "error"}
    /\ stText = <<>>
    /\ stSawDone = FALSE
    /\ stResp = NoResponse
    /\ stPc = "reading"

\* callGrokCollect returned text: the grok branch of POST parses and responds
streamCollected(text) ==
    /\ stResp' = genOk(parseOutputToJson(text, "grok"), NoBaseFiles)
    /\ stPc' = "done"

\* a text or tool-call event: yielded; the collector appends the text of a text chunk
StreamYield ==
    /\ stPc = "reading"
    /\ stEvents # <<>>
    /\ Head(stEvents).type # "done"
    /\ stText' = IF Head(stEvents).type = "text" THEN Append(stText, Head(stEvents).text)
                 ELSE stText
    /\ stEvents' = Tail(stEvents)
    /\ UNCHANGED <<stTail, stEnding, stSawDone, stResp, stPc>>
    /\ UNCHANGED otherThanStream

\* data: [DONE]: yield done and return; what follows in the body is not read
StreamDone ==
    /\ stPc = "reading"
    /\ stEvents # <<>>
    /\ Head(stEvents).type = "done"
    /\ stSawDone' = TRUE
    /\ streamCollected(stText)
    /\ UNCHANGED <<stEvents, stTail, stEnding, stText>>
    /\ UNCHANGED otherThanStream

\* reader.read() gives done: break, flush the buffer, the generator returns
StreamEof ==
    /\ stPc = "reading"
    /\ stEvents = <<>>
    /\ stEnding = "eof"
    /\ stSawDone' = stTail
    /\ streamCollected(stText)
    /\ UNCHANGED <<stEvents, stTail, stEnding, stText>>
    /\ UNCHANGED otherThanStream

\* reader.read() rejects: callGrok throws, POST answers 500
StreamError ==
    /\ stPc = "reading"
    /\ stEvents = <<>>
    /\ stEnding = "error"
    /\ stResp' = genError(500)
    /\ stPc' = "done"
    /\ UNCHANGED <<stEvents, stTail, stEnding, stText, stSawDone>>
    /\ UNCHANGED otherThanStream

StreamNext == StreamYield \/ StreamDone \/ StreamEof \/ StreamError

(***************************************************************************)
(* Debug route: the background task of POST in src/app/api/debug/route.ts  *)
(* that writes the response stream                                         *)
(***************************************************************************)
\* an element of parsed.fixes: well-formed, rejected by the validation, or null
FixKinds == {"valid", "invalid", "null"}

\* what parseJSONResponse returns: null, an object whose fixes is no array
\* (absent, or a string with a length), or an object with an array of fixes
NoParse == [parsed |-> FALSE, isArray |-> FALSE, fixes |-> <<>>]
DebugParses ==
    {NoParse}
    \cup [parsed : {TRUE}, isArray : {FALSE}, fixes : {<<>>, <<"valid">>}]
    \cup [parsed : {TRUE}, isArray : {TRUE}, fixes : SeqsUpTo(FixKinds, MaxFixes)]

FixIndices == 0..(MaxFixes - 1)
NoUpserts == [i \in FixIndices |-> "none"]

statusMessage == [type |-> "status", n |-> 0]
errorMessage == [type |-> "error", n |-> 0]
explanationMessage == [type |-> "explanation", n |-> 0]
completeMessage(count) == [type |-> "complete", n |-> count]

\* mutant: every fix message carries index 0
fixMessageNoIndex(i) == [type |-> "fix", n |-> 0]

fixMessage(i) == [type |-> "fix", n |-> i]

\* mutant: the rate-limit branch rethrows after its error message
rateLimitExitRethrows == "catch"

\* await writer.close(); return: control goes to the finally block
rateLimitExit == "finally"

\* mutant: the failure of an upsert is thrown into the fix loop
afterUpsertFailurePropagates(pc) == IF pc = "loop" THEN "catch" ELSE pc

\* upsertFixToQualityGraph catches everything and is not awaited
afterUpsertFailure(pc) == pc

DbgIdle ==
    /\ dbgModel = "dual"
    /\ dbgComplex = FALSE
    /\ dbgParsed = NoParse
    /\ dbgI = 0
    /\ dbgLog = <<>>
    /\ dbgUpserts = NoUpserts
    /\ dbgCloses = 0
    /\ dbgThrown = "none"
    /\ dbgPc = "idle"

\* the body passed the checks of POST; the background task is started
DbgStart ==
    /\ dbgModel \in {"dual", "grok"}
    /\ dbgComplex \in BOOLEAN
    /\ dbgParsed = NoParse
    /\ dbgI = 0
    /\ dbgLog = <<>>
    /\ dbgUpserts = NoUpserts
    /\ dbgCloses = 0
    /\ dbgThrown = "none"
    /\ dbgPc = "start"

sendChunk(data) == dbgLog' = Append(dbgLog, data)

\* step 3 up to the fix loop: validate parsed, send the explanation
validateAndExplain(parsed) ==
    IF ~parsed.parsed \/ ~parsed.isArray
    THEN /\ sendChunk(errorMessage)
         /\ dbgCloses' = dbgCloses + 1
         /\ dbgPc' = "finally"
         /\ UNCHANGED dbgI
    ELSE /\ sendChunk(explanationMessage)
         /\ dbgI' = 0
         /\ dbgPc' = "loop"
         /\ UNCHANGED dbgCloses

DbgSendStatus ==
    /\ dbgPc = "start"
    /\ sendChunk(statusMessage)
    /\ dbgPc' = "awaitGrok"
    /\ UNCHANGED <<dbgModel, dbgComplex, dbgParsed, dbgI, dbgUpserts, dbgCloses, dbgThrown>>
    /\ UNCHANGED otherThanDbg

\* callGrokCollect returns; the text is parsed; step 2 starts for a complex
\* error in dual mode, else step 3
DbgGrokReturns ==
    /\ dbgPc = "awaitGrok"
    /\ \E parsed \in DebugParses :
        /\ dbgParsed' = parsed
        /\ IF dbgModel = "dual" /\ dbgComplex /\ parsed.parsed
           THEN /\ sendChunk(statusMessage)
                /\ dbgPc' = "awaitClaude"
                /\ UNCHANGED <<dbgI, dbgCloses>>
           ELSE validateAndExplain(parsed)
    /\ UNCHANGED <<dbgModel, dbgComplex, dbgUpserts, dbgThrown>>
    /\ UNCHANGED otherThanDbg

\* callGrokCollect throws RateLimitError (its retries are used up)
DbgGrokRateLimited ==
    /\ dbgPc = "awaitGrok"
    /\ sendChunk(errorMessage)
    /\ dbgCloses' = dbgCloses + 1
    /\ dbgPc' = rateLimitExit
    /\ dbgThrown' = IF dbgPc' = "catch" THEN "grok" ELSE dbgThrown
    /\ UNCHANGED <<dbgModel, dbgComplex, dbgParsed, dbgI, dbgUpserts>>
    /\ UNCHANGED otherThanDbg

\* callGrokCollect throws another error: rethrown to the outer catch
DbgGrokThrows ==
    /\ dbgPc = "awaitGrok"
    /\ dbgThrown' = "grok"
    /\ dbgPc' = "catch"
    /\ UNCHANGED <<dbgModel, dbgComplex, dbgParsed, dbgI, dbgLog, dbgUpserts, dbgCloses>>
    /\ UNCHANGED otherThanDbg

\* callClaudeForTradeoffs returns: its parse replaces parsed when it has fixes
DbgClaudeReturns ==
    /\ dbgPc = "awaitClaude"
    /\ \E claudeParsed \in DebugParses :
        /\ dbgParsed' = IF claudeParsed.parsed /\ Len(claudeParsed.fixes) > 0
                        THEN claudeParsed ELSE dbgParsed
        /\ validateAndExplain(dbgParsed')
    /\ UNCHANGED <<dbgModel, dbgComplex, dbgUpserts, dbgThrown>>
    /\ UNCHANGED otherThanDbg

\* callClaudeForTradeoffs throws: logged, the fast model's parse is kept
DbgClaudeFails ==
    /\ dbgPc = "awaitClaude"
    /\ validateAndExplain(dbgParsed)
    /\ UNCHANGED <<dbgModel, dbgComplex, dbgParsed, dbgUpserts, dbgThrown>>
    /\ UNCHANGED otherThanDbg

\* one pass of the fix loop: a null element throws a TypeError, an invalid fix
\* is skipped, a valid one has its upsert started and its message sent
DbgFixStep ==
    /\ dbgPc = "loop"
    /\ dbgI < Len(dbgParsed.fixes)
    /\ LET fix == dbgParsed.fixes[dbgI + 1] IN
        CASE fix = "null" ->
                /\ dbgThrown' = "fix"
                /\ dbgPc' = "catch"
                /\ UNCHANGED <<dbgI, dbgLog, dbgUpserts>>
          [] fix = "invalid" ->
                /\ dbgI' = dbgI + 1
                /\ UNCHANGED <<dbgLog, dbgUpserts, dbgThrown, dbgPc>>
          [] OTHER ->
                /\ dbgUpserts' = [dbgUpserts EXCEPT ![dbgI] = "embedding"]
                /\ sendChunk(fixMessage(dbgI))
                /\ dbgI' = dbgI + 1
                /\ UNCHANGED <<dbgThrown, dbgPc>>
    /\ UNCHANGED <<dbgModel, dbgComplex, dbgParsed, dbgCloses>>
    /\ UNCHANGED otherThanDbg

\* the loop is over: send completion with the length of the array
DbgComplete ==
    /\ dbgPc = "loop"
    /\ dbgI = Len(dbgParsed.fixes)
    /\ sendChunk(completeMessage(Len(dbgParsed.fixes)))
    /\ dbgPc' = "finally"
    /\ UNCHANGED <<dbgModel, dbgComplex, dbgParsed, dbgI, dbgUpserts, dbgCloses, dbgThrown>>
    /\ UNCHANGED otherThanDbg

\* catch (error): send the error message
DbgCatch ==
    /\ dbgPc = "catch"
    /\ sendChunk(errorMessage)
    /\ dbgPc' = "finally"
    /\ UNCHANGED <<dbgModel, dbgComplex, dbgParsed, dbgI, dbgUpserts, dbgCloses, dbgThrown>>
    /\ UNCHANGED otherThanDbg

\* finally: writer.close()
DbgFinally ==
    /\ dbgPc = "finally"
    /\ dbgCloses' = dbgCloses + 1
    /\ dbgPc' = "closed"
    /\ UNCHANGED <<dbgModel, dbgComplex, dbgParsed, dbgI, dbgLog, dbgUpserts, dbgThrown>>
    /\ UNCHANGED otherThanDbg

\* upsertFixToQualityGraph: getClaudeEmbedding resolves, the insert is awaited
DbgEmbedded ==
    /\ \E i \in FixIndices :
        /\ dbgUpserts[i] = "embedding"
        /\ dbgUpserts' = [dbgUpserts EXCEPT ![i] = "inserting"]
    /\ UNCHANGED <<dbgModel, dbgComplex, dbgParsed, dbgI, dbgLog, dbgCloses, dbgThrown, dbgPc>>
    /\ UNCHANGED otherThanDbg

\* the insert resolves
DbgInserted ==
    /\ \E i \in FixIndices :
        /\ dbgUpserts[i] = "inserting"
        /\ dbgUpserts' = [dbgUpserts EXCEPT ![i] = "recorded"]
    /\ UNCHANGED <<dbgModel, dbgComplex, dbgParsed, dbgI, dbgLog, dbgCloses, dbgThrown, dbgPc>>
    /\ UNCHANGED otherThanDbg

\* getClaudeEmbedding or the insert rejects: caught inside upsertFixToQualityGraph
DbgUpsertFails ==
    /\ \E i \in FixIndices :
        /\ dbgUpserts[i] \in {"embedding", "inserting"}
        /\ dbgUpserts' = [dbgUpserts EXCEPT ![i] = "failed"]
    /\ dbgPc' = afterUpsertFailure(dbgPc)
    /\ dbgThrown' = IF dbgPc' # dbgPc THEN "upsert" ELSE dbgThrown
    /\ UNCHANGED <<dbgModel, dbgComplex, dbgParsed, dbgI, dbgLog, dbgCloses>>
    /\ UNCHANGED otherThanDbg

DbgNext ==
    \/ DbgSendStatus \/ DbgGrokReturns \/ DbgGrokRateLimited \/ DbgGrokThrows
    \/ DbgClaudeReturns \/ DbgClaudeFails \/ DbgFixStep \/ DbgComplete
    \/ DbgCatch \/ DbgFinally \/ DbgEmbedded \/ DbgInserted \/ DbgUpsertFails

(***************************************************************************)
(* Integrate route under concurrent requests: POST, processFigmaDesign and *)
(* dualRouterGenerate of src/unnamed/part_000 sharing costMonitor          *)
(***************************************************************************)
IntegrateRequests == 1..MaxRequests

\* how far below the limit the counter stands when the requests arrive
NearLimit == {limit - k : k \in 1..(2 * MaxRequests)}

CmIdle ==
    /\ cmApiCalls = 0
    /\ cmIssued = 0
    /\ cmFigma = [r \in IntegrateRequests |-> FALSE]
    /\ cmPc = [r \in IntegrateRequests |-> "idle"]

\* the requests arrive at a fresh process, or at one whose earlier calls, all
\* issued, have brought the counter near the limit
CmStart ==
    /\ cmApiCalls \in {0} \cup NearLimit
    /\ cmIssued = cmApiCalls
    /\ cmFigma \in [IntegrateRequests -> BOOLEAN]
    /\ cmPc = [r \in IntegrateRequests |-> "received"]

\* costMonitor.trackCall(service)
trackCall(calls) == calls + 1

\* trackCall, then checkLimit, then the external call: the position of the
\* request if the call is issued
trackCheckIssue(r, awaiting) ==
    /\ cmApiCalls' = trackCall(cmApiCalls)
    /\ IF ~checkLimit(cmApiCalls')
       THEN /\ cmPc' = [cmPc EXCEPT ![r] = "done"]
            /\ UNCHANGED cmIssued
       ELSE /\ cmPc' = [cmPc EXCEPT ![r] = awaiting]
            /\ cmIssued' = cmIssued + 1

\* POST up to its first await: processFigmaDesign up to app.scrape for a
\* Figma URL, else dualRouterGenerate up to callGrok
CmReceive ==
    /\ \E r \in IntegrateRequests :
        /\ cmPc[r] = "received"
        /\ IF cmFigma[r] THEN trackCheckIssue(r, "awaitScrape")
           ELSE trackCheckIssue(r, "awaitGrok")
    /\ UNCHANGED cmFigma
    /\ UNCHANGED otherThanCm

\* the scrape has a screenshot: trackCall('grok-vision'), no checkLimit, callGrok
CmScrapeReturns ==
    /\ \E r \in IntegrateRequests :
        /\ cmPc[r] = "awaitScrape"
        /\ cmApiCalls' = trackCall(cmApiCalls)
        /\ cmIssued' = cmIssued + 1
        /\ cmPc' = [cmPc EXCEPT ![r] = "awaitVision"]
    /\ UNCHANGED cmFigma
    /\ UNCHANGED otherThanCm

\* the vision stream ends: POST goes on to dualRouterGenerate up to callGrok
CmVisionReturns ==
    /\ \E r \in IntegrateRequests :
        /\ cmPc[r] = "awaitVision"
        /\ trackCheckIssue(r, "awaitGrok")
    /\ UNCHANGED cmFigma
    /\ UNCHANGED otherThanCm

\* the fast model's stream ends: step 2 up to generateText (at the limit the
\* fast parse is returned)
CmGrokReturns ==
    /\ \E r \in IntegrateRequests :
        /\ cmPc[r] = "awaitGrok"
        /\ trackCheckIssue(r, "awaitClaude")
    /\ UNCHANGED cmFigma
    /\ UNCHANGED otherThanCm

\* generateText settles: the response is sent
CmClaudeSettles ==
    /\ \E r \in IntegrateRequests :
        /\ cmPc[r] = "awaitClaude"
        /\ cmPc' = [cmPc EXCEPT ![r] = "done"]
    /\ UNCHANGED <<cmApiCalls, cmIssued, cmFigma>>
    /\ UNCHANGED otherThanCm

\* an awaited scrape or fast-model call fails: the request answers 500
CmCallFails ==
    /\ \E r \in IntegrateRequests :
        /\ cmPc[r] \in {"awaitScrape", "awaitVision", "awaitGrok"}
        /\ cmPc' = [cmPc EXCEPT ![r] = "done"]
    /\ UNCHANGED <<cmApiCalls, cmIssued, cmFigma>>
    /\ UNCHANGED otherThanCm

CmNext ==
    \/ CmReceive \/ CmScrapeReturns \/ CmVisionReturns \/ CmGrokReturns
    \/ CmClaudeSettles \/ CmCallFails

(***************************************************************************)
(* Specifications                                                          *)
(***************************************************************************)
\* the files store under any sequence of calls of its API
Init ==
    /\ StoreInit
    /\ DiffIdle
    /\ GenIdle
    /\ IntIdle
    /\ CodecIdle
    /\ EditorIdle
    /\ SimIdle
    /\ RetryIdle
    /\ StreamIdle
    /\ DbgIdle
    /\ CmIdle

Spec == Init /\ [][StoreNext]_vars

\* the diff engine on bounded texts
DiffInit ==
    /\ DiffStart
    /\ StoreInit
    /\ GenIdle
    /\ IntIdle
    /\ CodecIdle
    /\ EditorIdle
    /\ SimIdle
    /\ RetryIdle
    /\ StreamIdle
    /\ DbgIdle
    /\ CmIdle

SpecDiff == DiffInit /\ [][DiffNext]_vars

\* decideRoute on bounded prompts, vibes and modes
RouteInit ==
    /\ GenStart(RouteRequests)
    /\ StoreInit
    /\ DiffIdle
    /\ IntIdle
    /\ CodecIdle
    /\ EditorIdle
    /\ SimIdle
    /\ RetryIdle
    /\ StreamIdle
    /\ DbgIdle
    /\ CmIdle

SpecRoute == RouteInit /\ [][RouteNext]_vars

\* one request to the gen route or to the integrate route
GenInit ==
    /\ \/ GenStart(GenRequests) /\ IntIdle
       \/ GenIdle /\ IntStart
    /\ StoreInit
    /\ DiffIdle
    /\ CodecIdle
    /\ EditorIdle
    /\ SimIdle
    /\ RetryIdle
    /\ StreamIdle
    /\ DbgIdle
    /\ CmIdle

SpecGen == GenInit /\ [][GenNext]_vars

\* the codecs on bounded raw texts
CodecInit ==
    /\ CodecStart
    /\ StoreInit
    /\ DiffIdle
    /\ GenIdle
    /\ IntIdle
    /\ EditorIdle
    /\ SimIdle
    /\ RetryIdle
    /\ StreamIdle
    /\ DbgIdle
    /\ CmIdle

SpecCodec == CodecInit /\ [][CodecNext]_vars

\* the editor: harden, run tests, apply or cancel
EditorInit ==
    /\ EditorIdle
    /\ StoreInit
    /\ DiffIdle
    /\ GenIdle
    /\ IntIdle
    /\ CodecIdle
    /\ SimIdle
    /\ RetryIdle
    /\ StreamIdle
    /\ DbgIdle
    /\ CmIdle

SpecEditor == EditorInit /\ [][EditorNext]_vars

\* the handlers that stage changes, in flight together
StageInit ==
    /\ EditorIdle
    /\ StageStart
    /\ DiffIdle
    /\ GenIdle
    /\ IntIdle
    /\ CodecIdle
    /\ SimIdle
    /\ RetryIdle
    /\ StreamIdle
    /\ DbgIdle
    /\ CmIdle

SpecStage == StageInit /\ [][StageNext]_vars

\* the similarity query on bounded windows
SimInit ==
    /\ SimStart
    /\ StoreInit
    /\ DiffIdle
    /\ GenIdle
    /\ IntIdle
    /\ CodecIdle
    /\ EditorIdle
    /\ RetryIdle
    /\ StreamIdle
    /\ DbgIdle
    /\ CmIdle

SpecSim == SimInit /\ [][SimNext]_vars

\* one call of the retrying collector; every await is resolved in the end
RetryInit ==
    /\ RetryStart
    /\ StoreInit
    /\ DiffIdle
    /\ GenIdle
    /\ IntIdle
    /\ CodecIdle
    /\ EditorIdle
    /\ SimIdle
    /\ StreamIdle
    /\ DbgIdle
    /\ CmIdle

SpecRetry == RetryInit /\ [][RetryNext]_vars /\ WF_vars(RetryNext)

\* one stream of the fast model, of every shape and ending
StreamInit ==
    /\ StreamStart
    /\ StoreInit
    /\ DiffIdle
    /\ GenIdle
    /\ IntIdle
    /\ CodecIdle
    /\ EditorIdle
    /\ SimIdle
    /\ RetryIdle
    /\ DbgIdle
    /\ CmIdle

SpecStream == StreamInit /\ [][StreamNext]_vars

\* one debug request whose body passed the checks; every await is resolved in the end
DbgInit ==
    /\ DbgStart
    /\ StoreInit
    /\ DiffIdle
    /\ GenIdle
    /\ IntIdle
    /\ CodecIdle
    /\ EditorIdle
    /\ SimIdle
    /\ RetryIdle
    /\ StreamIdle
    /\ CmIdle

SpecDbg == DbgInit /\ [][DbgNext]_vars /\ WF_vars(DbgNext)

\* integrate requests in flight together on one cost monitor
CmInit ==
    /\ CmStart
    /\ StoreInit
    /\ DiffIdle
    /\ GenIdle
    /\ IntIdle
    /\ CodecIdle
    /\ EditorIdle
    /\ SimIdle
    /\ RetryIdle
    /\ StreamIdle
    /\ DbgIdle

SpecCm == CmInit /\ [][CmNext]_vars

(***************************************************************************)
(* Claims about the diff engine                                            *)
(***************************************************************************)
\* C1: round trip. For every base text B and candidate text A, applying to B
\* the diff computed from (B, A) yields exactly A.
C1_RoundTrip ==
    (dPc = "applied" /\ dAfter # NoText) => dOut = dAfter

\* cursor of the applier after its first k operations, none of them aborting
RECURSIVE cursorAfter(_, _, _)
cursorAfter(beforeLines, ops, k) ==
    IF k = 0 THEN 0
    ELSE LET i == cursorAfter(beforeLines, ops, k - 1)
             op == ops[k]
         IN IF /\ (startsWith(op, <<" ">>) \/ startsWith(op, <<"-">>))
               /\ at(beforeLines, i) = slice1(op)
            THEN i + 1 ELSE i

\* some context line of the diff differs from the base line at the read cursor
HasContextMismatch(before, diffText) ==
    LET ops == parseUnifiedDiff(diffText)
        beforeLines == split(before)
    IN \E k \in 1..Len(ops) :
        /\ startsWith(ops[k], <<" ">>)
        /\ at(beforeLines, cursorAfter(beforeLines, ops, k - 1)) # slice1(ops[k])

\* the mismatching context line is met with the cursor past the end of B
MismatchPastEnd(before, diffText) ==
    LET ops == parseUnifiedDiff(diffText)
        beforeLines == split(before)
    IN \E k \in 1..Len(ops) :
        /\ startsWith(ops[k], <<" ">>)
        /\ cursorAfter(beforeLines, ops, k - 1) >= Len(beforeLines)

\* C5: tolerant apply is fail-closed. If a context line of the diff does not
\* equal the base line at the read cursor (a cursor past the end included), the
\* applier, server or client, returns the base text unchanged.
C5_FailClosed ==
    (dPc \in {"applied", "appliedClient"} /\ HasContextMismatch(dBefore, dDiff))
        => dOut = dBefore

\* C5 witness: an applied model-written diff whose context line is met with the
\* cursor past the end of B, and B came back
C5_Witness ==
    /\ dPc = "applied"
    /\ dAfter = NoText
    /\ MismatchPastEnd(dBefore, dDiff)
    /\ dOut = dBefore

(***************************************************************************)
(* Claims about the files store                                            *)
(***************************************************************************)
\* positions of the staged changes whose path is in the local-edit set
EditedPositions == {k \in 1..Len(stagedChanges) : stagedChanges[k].path \in userEdits}
OtherPositions == {k \in 1..Len(stagedChanges) : stagedChanges[k].path \notin userEdits}

\* C2: applyStagedChanges never changes the content of a path that is in
\* userEdits when it runs; each staged change for such a path is counted as
\* skipped, every other one as applied and written.
C2_EditsNeverOverwritten ==
    [][ret' # NoReturn =>
        /\ \A p \in userEdits :
            /\ (p \in DOMAIN files') = (p \in DOMAIN files)
            /\ fileOrEmpty(files', p) = fileOrEmpty(files, p)
        /\ ret'.skipped = Cardinality(EditedPositions)
        /\ ret'.applied = Cardinality(OtherPositions)
        /\ \A k \in OtherPositions :
            /\ stagedChanges[k].path \in DOMAIN files'
            /\ \E h \in OtherPositions :
                /\ stagedChanges[h].path = stagedChanges[k].path
                /\ files'[stagedChanges[k].path] = stagedChanges[h].after
      ]_vars

\* C2 witness: edits {a.txt}, staged {a.txt, b.txt}: applied 1, skipped 1, and
\* a.txt keeps the locally edited content while b.txt was written
C2_Witness ==
    /\ ret = [applied |-> 1, skipped |-> 1]
    /\ userEdits = {"a.txt"}
    /\ DOMAIN files = {"a.txt", "b.txt"}
    /\ files["a.txt"] # files["b.txt"]

\* C6: applyStagedChanges returns applied + skipped = number of staged changes
\* and leaves the pending set empty, whatever was applied or skipped.
C6_CountsAndClear ==
    [][ret' # NoReturn =>
        /\ ret'.applied + ret'.skipped = Len(stagedChanges)
        /\ ret'.applied >= 0 /\ ret'.skipped >= 0
        /\ stagedChanges' = <<>>
      ]_vars

\* C6 witness: every staged change was skipped, and the pending set is empty
C6_Witness ==
    /\ ret = [applied |-> 0, skipped |-> MaxStaged]
    /\ stagedChanges = <<>>

(***************************************************************************)
(* Claims about routing, the codec and the chained orchestration           *)
(***************************************************************************)
\* the prompt contains the word, whatever the case of its letters
containsCI(prompt, word) ==
    \E a \in 1..Len(prompt) : \E b \in a..Len(prompt) :
        toLowerCase(SubSeq(prompt, a, b)) = word

\* the first-match table of the routing policy
RouteTable(prompt, vibe, mode) ==
    CASE mode = "dual" \/ vibe = "dual" -> "dual"
      [] mode # "dual" /\ vibe = "scrappy" -> "grok"
      [] mode # "dual" /\ vibe = "enterprise" -> "claude"
      [] mode # "dual" /\ vibe \notin {"dual", "scrappy", "enterprise"}
           /\ (containsCI(prompt, kwBuild) \/ containsCI(prompt, kwCreative)) -> "grok"
      [] mode # "dual" /\ vibe \notin {"dual", "scrappy", "enterprise"}
           /\ ~(containsCI(prompt, kwBuild) \/ containsCI(prompt, kwCreative))
           /\ (containsCI(prompt, kwRefine) \/ containsCI(prompt, kwHarden)) -> "claude"
      [] OTHER -> "grok"

\* C8: decideRoute(prompt, vibe, mode) equals the first-match table: mode or
\* vibe 'dual' gives dual; else vibe 'scrappy' grok; else vibe 'enterprise'
\* claude; else a prompt containing 'build' or 'creative' (any case) grok; else
\* one containing 'refine' or 'harden' claude; else grok.
C8_RouteTable ==
    gRoute # "none" => gRoute = RouteTable(gReq.prompt, gReq.vibe, gReq.mode)

\* C8 witness: the preset beats the keywords: vibe 'scrappy' with a prompt
\* 'REFINE harden' is routed to grok
C8_Witness ==
    /\ gRoute = "grok"
    /\ gReq.vibe = "scrappy"
    /\ gReq.mode = Undef
    /\ containsCI(gReq.prompt, kwRefine)
    /\ containsCI(gReq.prompt, kwHarden)

\* the raw text holds no complete <file path="...">...</file> block
NoFileBlock(raw) ==
    ~\E a \in 1..Len(raw) : \E b \in (a + 1)..Len(raw) :
        raw[a] = FileOpenA /\ raw[b] = FileClose

NoBlock(raw, open, close) ==
    ~\E a \in 1..Len(raw) : \E b \in (a + 1)..Len(raw) : raw[a] = open /\ raw[b] = close

IsBlank(raw) == \A k \in 1..Len(raw) : raw[k] = WS

\* C9: codec fallback. Text without a complete file block that is non-empty
\* after trimming parses to exactly one file, at src/App.jsx, holding the whole
\* trimmed text; empty or whitespace-only text parses to zero files;
\* explanation and tests are '' when their block is absent.
C9_CodecFallback ==
    cPc \in {"parsedGen", "parsedIntegrate"} =>
        /\ (NoFileBlock(cRaw) /\ ~IsBlank(cRaw)) =>
              /\ Len(cParsed.files) = 1
              /\ cParsed.files[1].path = DefaultPath
              /\ cParsed.files[1].content = trim(cRaw)
        /\ IsBlank(cRaw) => cParsed.files = <<>>
        /\ NoBlock(cRaw, ExplOpen, ExplClose) => cParsed.explanation = <<>>
        /\ NoBlock(cRaw, TestsOpen, TestsClose) => cParsed.tests = <<>>

\* the same statement for the gen route's parser alone
CodecFallbackGen ==
    cPc = "parsedGen" =>
        /\ (NoFileBlock(cRaw) /\ ~IsBlank(cRaw)) =>
              /\ Len(cParsed.files) = 1
              /\ cParsed.files[1].path = DefaultPath
              /\ cParsed.files[1].content = trim(cRaw)
        /\ IsBlank(cRaw) => cParsed.files = <<>>
        /\ NoBlock(cRaw, ExplOpen, ExplClose) => cParsed.explanation = <<>>
        /\ NoBlock(cRaw, TestsOpen, TestsClose) => cParsed.tests = <<>>

\* C4: chained fallback. In chained mode, when the refine model's text holds
\* zero file blocks (empty text or prose), the returned files, explanation and
\* tests are the parse of the fast model's output alone.
C4_ChainedFallback ==
    /\ (gPc = "done" /\ gRoute = "dual" /\ gResp.status = 200 /\ NoFileBlock(gFinalText)) =>
          gResp = genOk(parseOutputToJson(gGrokText, "grok"), gReq.baseFiles)
    /\ (iPc = "done" /\ iResp.status = 200 /\ iFinalText # NoText /\ NoFileBlock(iFinalText)) =>
          iResult = parseOutput(iGrokText, "grok")

\* the same statement for the integrate route alone
ChainedFallbackIntegrate ==
    (iPc = "done" /\ iResp.status = 200 /\ iFinalText # NoText /\ NoFileBlock(iFinalText)) =>
        iResult = parseOutput(iGrokText, "grok")

\* C10: in chained mode, if the fast model's output parses to at least one
\* file and the request does not fail, the returned file list is not empty,
\* whatever the refine model returns.
C10_NeverEmptied ==
    /\ (/\ gPc = "done" /\ gRoute = "dual" /\ gResp.status = 200
        /\ Len(parseOutputToJson(gGrokText, "grok").files) > 0)
          => Len(gResp.files) > 0
    /\ (/\ iPc = "done" /\ iResp.status = 200
        /\ Len(parseOutput(iGrokText, "grok").files) > 0)
          => Len(iResult.files) > 0 /\ Len(iResp.files) > 0

\* C10 witness: the fast model wrote a file, the refine model answered with an
\* empty text, and the gen route returned the fast model's file
C10_Witness ==
    /\ gPc = "done" /\ gRoute = "dual" /\ gResp.status = 200
    /\ gGrokText = <<FileOpenA, "X", FileClose>>
    /\ gFinalText = <<>>
    /\ Len(gResp.files) = 1
    /\ gResp.files[1].path = "a.jsx"

(***************************************************************************)
(* Claims about the editor and the handlers that stage changes             *)
(***************************************************************************)
\* C3: in the editor applyStagedChanges is invoked only if a test run has
\* completed for the currently pending set and that run has pass rate >= 0.8;
\* a missing result, a failed run, or a result obtained before the current
\* pending set was staged never enables apply.
C3_TestGate ==
    [][ret' # NoReturn =>
        /\ testResult # NoTestResult
        /\ testResult >= PassThreshold
        /\ testFresh
      ]_vars

\* the part of C3 about a missing or failed run
ApplyNeedsPassingResult ==
    [][ret' # NoReturn => (testResult # NoTestResult /\ testResult >= PassThreshold)]_vars

\* C7: last stage wins. After stage calls by handlers in flight together,
\* completing in either order, the pending set is exactly the argument of the
\* call that ran last, with no change of an earlier call.
C7_LastStageWins ==
    lastBy # "none" => stagedChanges = lastStaged

\* C7 witness: integrate and harden were in flight together; integrate staged
\* its grok changes first, harden staged last, and the pending set is harden's
\* argument, all of it tagged claude
C7_Witness ==
    /\ raced
    /\ prevBy = "integrate"
    /\ lastBy = "harden"
    /\ Len(stagedChanges) > 0
    /\ stagedChanges = lastStaged
    /\ \A k \in 1..Len(stagedChanges) : stagedChanges[k].modelUsed = "claude"

(***************************************************************************)
(* Claims about the similarity query                                       *)
(***************************************************************************)
scoreOfRow(k) == cosineSimilarity(sEmb, sRows[k].embedding)

\* C11: the similarity query returns exactly the records of the window whose
\* score is >= minSimilarity, in non-increasing score order, truncated to the
\* first `limit`: none below the threshold, and no qualifying record left out
\* while a lower-scored one is returned.
C11_RecallQuery ==
    (sPc = "done" /\ sResp.status = 200) =>
        LET res == sResp.results
            qualifying == {k \in 1..Len(sRows) : scoreOfRow(k) >= sMin}
            returned == {res[j].id : j \in 1..Len(res)}
        IN /\ Len(res) = Min(sLimit, Cardinality(qualifying))
           /\ Cardinality(returned) = Len(res)
           /\ returned \subseteq qualifying
           /\ \A j \in 1..Len(res) : res[j].score = scoreOfRow(res[j].id)
           /\ \A j \in 1..(Len(res) - 1) : res[j].score >= res[j + 1].score
           /\ \A k \in qualifying \ returned : \A j \in 1..Len(res) : res[j].score >= scoreOfRow(k)

\* C11 witness: scores 60, 80, 100 in the window, min 70, limit 2: the records
\* scored 100 and 80 are returned, in that order
C11_Witness ==
    /\ sPc = "done"
    /\ sEmb = <<1, 0>>
    /\ sMin = 70
    /\ sLimit = 2
    /\ Len(sRows) = 3
    /\ sResp = [status |-> 200, results |-> <<[id |-> 3, score |-> 100], [id |-> 2, score |-> 80]>>]

(***************************************************************************)
(* Claims about the model clients                                          *)
(***************************************************************************)
\* the attempts so far obey the retry budget
RetryBounded ==
    /\ Len(rFailures) <= maxRetries + 1
    /\ retryCount <= maxRetries
    /\ \A k \in 1..(Len(rFailures) - 1) : rFailures[k] = "rateLimit"
    /\ (Len(rFailures) > 0 /\ rFailures[Len(rFailures)] = "other") =>
          (rPc = "threw" /\ rError = "other")
    /\ (rPc = "threw" /\ rError = "rateLimit") =>
          (Len(rFailures) = maxRetries + 1 /\ \A k \in 1..Len(rFailures) : rFailures[k] = "rateLimit")
    /\ Len(rFailures) = maxRetries + 1 => rPc = "threw"
    /\ rPc = "returned" => (rResult = rText /\ \A k \in 1..Len(rFailures) : rFailures[k] = "rateLimit")

\* C12: the rate-limit retry loop is bounded: only RateLimitError is retried,
\* at most maxRetries times (at most maxRetries + 1 attempts), then the failure
\* is surfaced; any other error is surfaced at once; the text of a failed
\* attempt is discarded; the loop always terminates.
C12_RetryBounded ==
    []RetryBounded /\ <>(rPc \in {"returned", "threw"})

\* C12 witness: four attempts were rate limited and the failure was surfaced
C12_Witness ==
    /\ rPc = "threw"
    /\ rError = "rateLimit"
    /\ retryCount = maxRetries
    /\ Len(rFailures) = maxRetries + 1

\* C13: a fast-model stream that ends before its completion signal ([DONE])
\* is a failure: the partial text is never parsed and never returned as a
\* successful result.
C13_PartialStreamFails ==
    (stPc = "done" /\ ~stSawDone) => stResp.status # 200

\* a stream that is read to its completion signal is answered with its parse
CompleteStreamParsed ==
    (stPc = "done" /\ stSawDone) =>
        stResp = genOk(parseOutputToJson(stText, "grok"), NoBaseFiles)

\* C14: in every chained orchestration (gen route and integrate route) a
\* failure of a model call, the refine call after a successful fast call
\* included, is not swallowed: the request ends in a failure, not in a result.
C14_FailuresPropagate ==
    [][/\ GenCallFails => gResp'.status # 200
       /\ (IntGrokFails \/ IntClaudeFails) => iResp'.status # 200]_vars

\* the same statement for the gen route alone, and for the fast call of the
\* integrate route
FailuresPropagateGen ==
    [][/\ GenCallFails => gResp'.status # 200
       /\ IntGrokFails => iResp'.status # 200]_vars

\* C15: budget exceeded degrades instead of failing. Whenever the call-count
\* ceiling is reached during an integrate request, the request answers with
\* the fast model's result and does not fail.
C15_BudgetDegrades ==
    (iPc = "done" /\ ~checkLimit(apiCalls)) =>
        /\ iResp.status = 200
        /\ iResult = parseOutput(iGrokText, "grok")

\* the ceiling reached at the second check (after the fast call) does degrade
BudgetDegradesAtRefine ==
    (iPc = "done" /\ ~checkLimit(apiCalls) /\ iGrokText # NoText) =>
        /\ iResp.status = 200
        /\ iResult = parseOutput(iGrokText, "grok")

(***************************************************************************)
(* Claims about the debug response stream                                  *)
(***************************************************************************)
logPositions(type) == {k \in 1..Len(dbgLog) : dbgLog[k].type = type}
isTerminal(message) == message.type \in {"complete", "error"}
noNullFix == \A k \in 1..Len(dbgParsed.fixes) : dbgParsed.fixes[k] # "null"

\* the fix messages of the valid elements of fixes from index i on, in order
RECURSIVE fixMessagesFrom(_, _)
fixMessagesFrom(fixes, i) ==
    IF i >= Len(fixes) THEN <<>>
    ELSE (IF fixes[i + 1] = "valid" THEN <<fixMessage(i)>> ELSE <<>>)
             \o fixMessagesFrom(fixes, i + 1)

\* C16: the messages of a debug stream are ordered status, explanation, fix
\* messages, complete: a status message is first, the one explanation follows
\* status messages only, no fix message precedes it, fix messages carry
\* strictly increasing indices, and complete is sent after all fix messages.
C16_StreamOrder ==
    /\ dbgLog # <<>> => dbgLog[1].type = "status"
    /\ \A k \in logPositions("explanation") :
            \A j \in 1..(k - 1) : dbgLog[j].type = "status"
    /\ \A k \in logPositions("fix") :
            /\ \E j \in logPositions("explanation") : j < k
            /\ \A j \in logPositions("fix") : j < k => dbgLog[j].n < dbgLog[k].n
    /\ \A k \in logPositions("complete") :
            /\ \A j \in logPositions("fix") : j < k
            /\ \A i \in 1..Len(dbgParsed.fixes) :
                    dbgParsed.fixes[i] = "valid" =>
                        \E j \in logPositions("fix") : dbgLog[j].n = i - 1

\* a refined answer with two valid fixes, streamed to completion
C16_Witness ==
    /\ dbgPc = "closed"
    /\ Len(dbgLog) = 6
    /\ dbgLog[2].type = "status"
    /\ dbgLog[3].type = "explanation"
    /\ dbgLog[4] = [type |-> "fix", n |-> 0]
    /\ dbgLog[5] = [type |-> "fix", n |-> 1]
    /\ dbgLog[6].type = "complete"

\* at most one terminal message, and nothing after it; a closed stream has one
OneTerminal ==
    /\ Cardinality(logPositions("complete") \cup logPositions("error")) <= 1
    /\ \A k \in 1..Len(dbgLog) : isTerminal(dbgLog[k]) => k = Len(dbgLog)
    /\ dbgPc = "closed" => (dbgLog # <<>> /\ isTerminal(dbgLog[Len(dbgLog)]))

\* C17: every debug stream carries exactly one terminal message, complete or
\* error and never both, and no message follows it, on the rate-limit, the
\* unparsable, the normal and the exception path; every stream is closed.
C17_OneTerminal == []OneTerminal /\ <>(dbgPc = "closed")

\* the exception path after a fix was streamed: a null element of fixes
C17_Witness ==
    /\ dbgPc = "closed"
    /\ dbgThrown = "fix"
    /\ Len(dbgLog) = 4
    /\ dbgLog[3].type = "fix"
    /\ dbgLog[4].type = "error"

\* C18: recording a fix is detached and contained. The fix message is sent
\* with the start of its upsert, a stream whose answer parsed is closed with
\* the fix messages of its valid fixes and complete whatever the state of the
\* upserts, and no error message appears unless the fast call failed, the
\* answer did not parse or a fix was null.
C18_RecordingDetached ==
    /\ \A i \in FixIndices :
            dbgUpserts[i] # "none" => \E k \in logPositions("fix") : dbgLog[k].n = i
    /\ (logPositions("explanation") # {} /\ noNullFix) =>
            /\ logPositions("error") = {}
            /\ dbgThrown = "none"
            /\ dbgPc = "closed" =>
                 \E k \in logPositions("explanation") :
                     SubSeq(dbgLog, k + 1, Len(dbgLog)) =
                         fixMessagesFrom(dbgParsed.fixes, 0)
                             \o <<completeMessage(Len(dbgParsed.fixes))>>

\* a completed stream with one upsert failed and the other still pending
C18_Witness ==
    /\ dbgPc = "closed"
    /\ logPositions("complete") # {}
    /\ dbgUpserts[0] = "failed"
    /\ dbgUpserts[1] = "embedding"

(***************************************************************************)
(* Claims about the pending set                                            *)
(***************************************************************************)
\* C19: the pending set is keyed by path. In every reachable state it holds at
\* most one staged change per path, also when the model's output has two file
\* blocks with the same path.
C19_KeyedByPath ==
    \A j, k \in 1..Len(stagedChanges) :
        j # k => stagedChanges[j].path # stagedChanges[k].path

\* C20: discard writes nothing. clearStagedChanges empties the pending set
\* and leaves files and the local-edit set unchanged.
C20_DiscardWritesNothing ==
    [][discarded' >= 0 =>
        /\ stagedChanges' = <<>>
        /\ files' = files
        /\ userEdits' = userEdits]_vars

\* a full pending set was discarded with files and local edits present
C20_Witness ==
    /\ discarded = MaxStaged
    /\ stagedChanges = <<>>
    /\ DOMAIN files = Paths
    /\ userEdits # {}

(***************************************************************************)
(* Claims about the loop of the diff applier                               *)
(***************************************************************************)
\* lines pushed to result by the first k operations of the server applier,
\* none of them aborting: a context line and an addition push their text, a
\* deletion pushes nothing, a line without marker is copied through
RECURSIVE emittedAfter(_, _)
emittedAfter(ops, k) ==
    IF k = 0 THEN <<>>
    ELSE LET op == ops[k] IN
         IF startsWith(op, <<" ">>) \/ startsWith(op, <<"+">>)
         THEN Append(emittedAfter(ops, k - 1), slice1(op))
         ELSE IF startsWith(op, <<"-">>) THEN emittedAfter(ops, k - 1)
         ELSE Append(emittedAfter(ops, k - 1), op)

\* some deletion line of the diff differs from the base line at the cursor
HasDeletionMismatch(before, diffText) ==
    LET ops == parseUnifiedDiff(diffText)
        beforeLines == split(before)
    IN \E k \in 1..Len(ops) :
        /\ startsWith(ops[k], <<"-">>)
        /\ at(beforeLines, cursorAfter(beforeLines, ops, k - 1)) # slice1(ops[k])

\* C21: in applyUnifiedDiff a deletion line advances the read cursor by one
\* when it equals the base line at the cursor; when it does not, the cursor
\* stays, nothing is emitted, no error is raised and the next line is
\* processed; addition lines are emitted verbatim whatever the cursor; after
\* the last diff line the base lines from the cursor on are appended in order.
C21_DeletionCursor ==
    (dPc = "applied" /\ ~HasContextMismatch(dBefore, dDiff)) =>
        LET ops == parseUnifiedDiff(dDiff)
            beforeLines == split(dBefore)
            i == cursorAfter(beforeLines, ops, Len(ops))
        IN dOut = join(emittedAfter(ops, Len(ops))
                          \o SubSeq(beforeLines, i + 1, Len(beforeLines)))

\* the diff '-a' then '+b' applied to 'b': the deletion does not match, the
\* addition is emitted and the untouched base line follows
C21_Witness ==
    /\ dPc = "applied"
    /\ dBefore = <<"b">>
    /\ dDiff = join(<< <<"-", "a">>, <<"+", "b">> >>)
    /\ HasDeletionMismatch(dBefore, dDiff)
    /\ dOut = join(<< <<"b">>, <<"b">> >>)

(***************************************************************************)
(* Claims about the tie-break of unifiedDiff                               *)
(***************************************************************************)
\* length of a longest common subsequence of the lines after the first i of
\* oldLines and the first j of newLines
RECURSIVE lcsLen(_, _, _, _)
lcsLen(oldLines, newLines, i, j) ==
    IF i >= Len(oldLines) \/ j >= Len(newLines) THEN 0
    ELSE IF oldLines[i + 1] = newLines[j + 1] THEN 1 + lcsLen(oldLines, newLines, i + 1, j + 1)
    ELSE Max(lcsLen(oldLines, newLines, i + 1, j), lcsLen(oldLines, newLines, i, j + 1))

\* lines of before (i) and of after (j) consumed by the first k lines of a diff
RECURSIVE consumedAfter(_, _)
consumedAfter(diffLines, k) ==
    IF k = 0 THEN [i |-> 0, j |-> 0]
    ELSE LET c == consumedAfter(diffLines, k - 1)
             marker == diffLines[k][1]
         IN [i |-> IF marker \in {" ", "-"} THEN c.i + 1 ELSE c.i,
             j |-> IF marker \in {" ", "+"} THEN c.j + 1 ELSE c.j]

\* the diff line k is written at a tie: both texts have a current line, the
\* two differ, and dropping either leaves the same LCS length
AtTie(oldLines, newLines, diffLines, k) ==
    LET c == consumedAfter(diffLines, k - 1) IN
    /\ c.i < Len(oldLines) /\ c.j < Len(newLines)
    /\ oldLines[c.i + 1] # newLines[c.j + 1]
    /\ lcsLen(oldLines, newLines, c.i + 1, c.j) = lcsLen(oldLines, newLines, c.i, c.j + 1)

\* C22: tie-break of unifiedDiff. Where the two current lines differ and
\* dropping the before line leaves the same remaining LCS length as dropping
\* the after line, the '-' line of the before line is emitted first; so the
\* replacement of a line x by y is written '-x' then '+y'.
C22_TieBreak ==
    (dPc # "start" /\ dAfter # NoText) =>
        LET oldLines == split(dBefore)
            newLines == split(dAfter)
            diffLines == split(dDiff)
        IN /\ \A k \in 1..Len(diffLines) :
                AtTie(oldLines, newLines, diffLines, k) =>
                    diffLines[k] = <<"-">> \o oldLines[consumedAfter(diffLines, k - 1).i + 1]
           /\ (Len(oldLines) = 1 /\ Len(newLines) = 1 /\ oldLines # newLines) =>
                dDiff = join(<< <<"-">> \o oldLines[1], <<"+">> \o newLines[1] >>)

\* the line 'a' replaced by 'b'
C22_Witness ==
    /\ dPc = "diffed"
    /\ dBefore = <<"a">>
    /\ dAfter = <<"b">>
    /\ AtTie(split(dBefore), split(dAfter), split(dDiff), 1)
    /\ dDiff = join(<< <<"-", "a">>, <<"+", "b">> >>)

(***************************************************************************)
(* Claims about the local-edit set                                         *)
(***************************************************************************)
\* C23: the local-edit set never loses a path. No call of updateFile,
\* setFiles, setStagedChanges, clearStagedChanges or applyStagedChanges
\* removes a path from userEdits, so every later applyStagedChanges skips
\* every staged change for a path that was edited locally.
C23_EditsNeverLost ==
    [][/\ userEdits \subseteq userEdits'
       /\ ret' # NoReturn =>
            \A k \in 1..Len(stagedChanges) :
                LET p == stagedChanges[k].path IN
                p \in userEdits =>
                    /\ (p \in DOMAIN files') = (p \in DOMAIN files)
                    /\ fileOrEmpty(files', p) = fileOrEmpty(files, p)]_vars

\* both paths were edited, the file map was replaced by an empty one, and a
\* later apply skipped its staged change
C23_Witness ==
    /\ ret = [applied |-> 0, skipped |-> 1]
    /\ userEdits = Paths
    /\ DOMAIN files = {}

(***************************************************************************)
(* Claims about writes of stale staged changes                             *)
(***************************************************************************)
\* C24: no lost update on apply. Whenever applyStagedChanges writes a staged
\* change, the content of its path just before the apply equals the before
\* value of the change, in every interleaving of setFiles, stage and apply.
C24_NoLostUpdate ==
    [][ret' # NoReturn =>
        \A k \in 1..Len(stagedChanges) :
            stagedChanges[k].path \notin userEdits =>
                fileOrEmpty(files, stagedChanges[k].path) = stagedChanges[k].before]_vars

(***************************************************************************)
(* Claims about the harden route and the two appliers                      *)
(***************************************************************************)
\* C25: the harden route applies a well-formed diff faithfully. When the body
\* of the model's diff block is exactly unifiedDiff(before, after) for a
\* submitted file with after different from before, the content returned for
\* the path is after; a path is returned only if its patched content differs
\* from the submitted content.
C25_HardenFaithful ==
    /\ (dPc = "hardened" /\ dAfter # NoText /\ dAfter # dBefore) => dOut = dAfter
    /\ (dPc = "hardened" /\ dOut # NoText) => dOut # dBefore

\* the same for diffs that neither start nor end with white space and hold no
\* line that reads as a header
HardenFaithfulPlain ==
    (/\ dPc = "hardened" /\ dAfter # NoText /\ dAfter # dBefore
     /\ trimText(dDiff) = dDiff
     /\ parseUnifiedDiff(dDiff) = split(dDiff)) => dOut = dAfter

\* C28: the client-side applier and the server-side applier are equivalent:
\* for every base text and every diff text they return the same text, diffs
\* with lines that carry none of the ' ', '-', '+' markers included.
C28_AppliersAgree ==
    (dPc = "appliedClient") => dOut = applyUnifiedDiff(dBefore, dDiff)

\* the two appliers agree on diffs all of whose lines carry a marker
AppliersAgreeOnMarked ==
    (/\ dPc = "appliedClient"
     /\ \A k \in 1..Len(parseUnifiedDiff(dDiff)) :
            /\ parseUnifiedDiff(dDiff)[k] # <<>>
            /\ parseUnifiedDiff(dDiff)[k][1] \in {" ", "-", "+"})
        => dOut = applyUnifiedDiff(dBefore, dDiff)

(***************************************************************************)
(* Claims about the writer and the count of the debug stream               *)
(***************************************************************************)
\* C26: on every path of the background task (success, rate limit,
\* unparsable answer, exception) the stream writer is closed exactly once;
\* close is never called on a writer that is closed already.
C26_ClosedOnce ==
    /\ dbgCloses <= 1
    /\ dbgPc = "closed" => dbgCloses = 1

\* the success path and the exception path close the writer once
ClosedOnceWithoutEarlyReturn ==
    (dbgPc = "closed" /\ (logPositions("complete") # {} \/ dbgThrown # "none")) =>
        dbgCloses = 1

\* C27: the count of the complete message equals the number of fix messages
\* sent before it, also when fixes of the answer are skipped as invalid.
C27_CountMatchesFixes ==
    \A k \in logPositions("complete") :
        dbgLog[k].n = Cardinality({j \in logPositions("fix") : j < k})

\* the count is the length of the fixes array
CountIsArrayLength ==
    \A k \in logPositions("complete") : dbgLog[k].n = Len(dbgParsed.fixes)

(***************************************************************************)
(* Claims about the mode of a gen request                                  *)
(***************************************************************************)
\* C29: routing does not depend on an explicit mode other than 'dual'. For
\* every prompt, vibe and mode m different from 'dual' (the fast and refine
\* modes included) decideRoute(prompt, vibe, m) = decideRoute(prompt, vibe,
\* undefined).
C29_ModeIgnored ==
    (gRoute # "none" /\ gReq.mode # "dual") =>
        gRoute = decideRoute(gReq.prompt, gReq.vibe, Undef)

\* a request in mode 'fast' whose prompt says 'refine' goes to the refine model
C29_Witness ==
    /\ gRoute = "claude"
    /\ gReq.mode = "fast"
    /\ gReq.vibe = Undef
    /\ containsCI(gReq.prompt, kwRefine)

(***************************************************************************)
(* Claims about the cost monitor                                           *)
(***************************************************************************)
\* C30: the process-wide cost monitor caps external calls. In every
\* interleaving of concurrent integrate requests, with or without the Figma
\* step, the number of external calls issued never exceeds the limit, and
\* the counter apiCalls never decreases.
C30_CallsCapped ==
    [][/\ cmApiCalls' >= cmApiCalls
       /\ cmIssued' <= limit]_vars

\* every issued call was tracked, and the counter never decreases
IssuedCallsTracked ==
    [][/\ cmApiCalls' >= cmApiCalls
       /\ cmIssued' <= cmApiCalls']_vars

\* the calls behind checkLimit are issued below the limit only
CheckedCallsCapped ==
    [][(CmReceive \/ CmVisionReturns \/ CmGrokReturns) =>
          (cmIssued' > cmIssued => cmApiCalls' < limit)]_vars

====
